---------------------------- MODULE Spec2Model ----------------------------
(***************************************************************************)
(* Model of the MongoDB JavaScript parser (package mongoparser).           *)
(*                                                                         *)
(* Texts are sequences of one-character strings, so that the scanners of   *)
(* utils.go and parser.go can be written character by character as the     *)
(* code does.  All inputs are ASCII, where Go's byte index and rune index  *)
(* coincide.                                                               *)
(***************************************************************************)
EXTENDS Integers, Sequences, FiniteSets, TLC

(***************************************************************************)
(* Character classes                                                       *)
(***************************************************************************)
DQ == "\""
SQ == "'"
BSL == "\\"

Lower == {"a","b","c","d","e","f","g","h","i","j","k","l","m",
          "n","o","p","q","r","s","t","u","v","w","x","y","z"}
Upper == {"A","B","C","D","E","F","G","H","I","J","K","L","M",
          "N","O","P","Q","R","S","T","U","V","W","X","Y","Z"}
Digit == {"0","1","2","3","4","5","6","7","8","9"}

\* unicode.IsSpace restricted to ASCII, as used by strings.TrimSpace
Space == {" ", "\t", "\n", "\r"}

isAlphaStart(char) == char \in Lower \/ char \in Upper \/ char = "_" \/ char = "$"

isAlphaNum(char) == isAlphaStart(char) \/ char \in Digit

\* The element of a one-element set.  The({e : v \in {x}}) is e with v
\* standing for x: a local variable assigned once and read many times.
The(S) == CHOOSE x \in S : TRUE

(***************************************************************************)
(* Package strings                                                         *)
(***************************************************************************)
RECURSIVE TrimLeft(_)
TrimLeft(s) == IF s # <<>> /\ Head(s) \in Space THEN TrimLeft(Tail(s)) ELSE s

RECURSIVE TrimRight(_)
TrimRight(s) ==
    IF s # <<>> /\ s[Len(s)] \in Space THEN TrimRight(SubSeq(s, 1, Len(s) - 1)) ELSE s

TrimSpace(s) == TrimRight(TrimLeft(s))

HasPrefix(s, p) == Len(s) >= Len(p) /\ SubSeq(s, 1, Len(p)) = p

HasSuffix(s, p) == Len(s) >= Len(p) /\ SubSeq(s, Len(s) - Len(p) + 1, Len(s)) = p

TrimPrefix(s, p) == IF HasPrefix(s, p) THEN SubSeq(s, Len(p) + 1, Len(s)) ELSE s

TrimSuffix(s, p) == IF HasSuffix(s, p) THEN SubSeq(s, 1, Len(s) - Len(p)) ELSE s

\* strings.Contains for a one-character needle
Contains(s, c) == \E i \in 1..Len(s) : s[i] = c

\* strings.Index for a one-character needle, 1-based; 0 stands for Go's -1
Index(s, c) == IF Contains(s, c) THEN CHOOSE i \in 1..Len(s) : s[i] = c /\ \A j \in 1..(i-1) : s[j] # c
               ELSE 0

\* strings.LastIndex for a one-character needle, 1-based; 0 stands for Go's -1
LastIndex(s, c) == IF Contains(s, c) THEN CHOOSE i \in 1..Len(s) : s[i] = c /\ \A j \in (i+1)..Len(s) : s[j] # c
                   ELSE 0

\* strings.ReplaceAll for one-character old and new
ReplaceAll(s, old, new) == [i \in 1..Len(s) |-> IF s[i] = old THEN new ELSE s[i]]

\* strings.Trim(s, cutset): strips leading and trailing characters of cutset
RECURSIVE TrimCut(_, _)
TrimCut(s, cutset) ==
    IF s # <<>> /\ Head(s) \in cutset THEN TrimCut(Tail(s), cutset)
    ELSE IF s # <<>> /\ s[Len(s)] \in cutset THEN TrimCut(SubSeq(s, 1, Len(s) - 1), cutset)
    ELSE s

\* strings.Split(s, "\n")
RECURSIVE SplitLines(_)
SplitLines(s) ==
    LET k == Index(s, "\n") IN
    IF k = 0 THEN <<s>>
    ELSE <<SubSeq(s, 1, k - 1)>> \o SplitLines(SubSeq(s, k + 1, Len(s)))

\* strings.Join(parts, sep)
RECURSIVE Join(_, _)
Join(parts, sep) ==
    IF parts = <<>> THEN <<>>
    ELSE IF Len(parts) = 1 THEN parts[1]
    ELSE parts[1] \o sep \o Join(Tail(parts), sep)

(***************************************************************************)
(* utils.go                                                                *)
(***************************************************************************)

\* the look-ahead of removeTrailingCommas: first index >= j that is not
\* one of ' ', '\t', '\n', '\r' (Len+1 when there is none)
RECURSIVE skipWhitespace(_, _)
skipWhitespace(input, j) ==
    IF j <= Len(input) /\ input[j] \in {" ", "\t", "\n", "\r"}
    THEN skipWhitespace(input, j + 1) ELSE j

RECURSIVE rtcLoop(_, _, _, _, _)
rtcLoop(input, i, inQuotes, quoteChar, result) ==
    IF i > Len(input) THEN result
    ELSE LET char == input[i] IN
      CASE char \in {DQ, SQ} ->
             IF ~inQuotes THEN rtcLoop(input, i + 1, TRUE, char, Append(result, char))
             ELSE IF char = quoteChar
                  THEN rtcLoop(input, i + 1, FALSE, quoteChar, Append(result, char))
                  ELSE rtcLoop(input, i + 1, inQuotes, quoteChar, Append(result, char))
        [] char = "," ->
             IF inQuotes THEN rtcLoop(input, i + 1, inQuotes, quoteChar, Append(result, char))
             ELSE LET j == skipWhitespace(input, i + 1) IN
                  IF j <= Len(input) /\ input[j] \in {"}", "]"}
                  THEN rtcLoop(input, i + 1, inQuotes, quoteChar, result)
                  ELSE rtcLoop(input, i + 1, inQuotes, quoteChar, Append(result, char))
        [] OTHER -> rtcLoop(input, i + 1, inQuotes, quoteChar, Append(result, char))

\* a plausible slip: the look-ahead does not skip whitespace
RECURSIVE rtcLoopNoSkip(_, _, _, _, _)
rtcLoopNoSkip(input, i, inQuotes, quoteChar, result) ==
    IF i > Len(input) THEN result
    ELSE LET char == input[i] IN
      CASE char \in {DQ, SQ} ->
             IF ~inQuotes THEN rtcLoopNoSkip(input, i + 1, TRUE, char, Append(result, char))
             ELSE IF char = quoteChar
                  THEN rtcLoopNoSkip(input, i + 1, FALSE, quoteChar, Append(result, char))
                  ELSE rtcLoopNoSkip(input, i + 1, inQuotes, quoteChar, Append(result, char))
        [] char = "," ->
             IF inQuotes THEN rtcLoopNoSkip(input, i + 1, inQuotes, quoteChar, Append(result, char))
             ELSE IF i + 1 <= Len(input) /\ input[i + 1] \in {"}", "]"}
                  THEN rtcLoopNoSkip(input, i + 1, inQuotes, quoteChar, result)
                  ELSE rtcLoopNoSkip(input, i + 1, inQuotes, quoteChar, Append(result, char))
        [] OTHER -> rtcLoopNoSkip(input, i + 1, inQuotes, quoteChar, Append(result, char))

removeTrailingCommas_NoSkip(input) == rtcLoopNoSkip(input, 1, FALSE, "", <<>>)

removeTrailingCommas(input) == rtcLoop(input, 1, FALSE, "", <<>>)

\* end of the identifier that starts at i: first index that is neither
\* isAlphaNum nor '_'
RECURSIVE identEnd(_, _)
identEnd(input, i) ==
    IF i <= Len(input) /\ (isAlphaNum(input[i]) \/ input[i] = "_")
    THEN identEnd(input, i + 1) ELSE i

\* the whitespace skip of addQuotesToKeys: only ' ' and '\t'
RECURSIVE skipBlanks(_, _)
skipBlanks(input, i) ==
    IF i <= Len(input) /\ input[i] \in {" ", "\t"} THEN skipBlanks(input, i + 1) ELSE i

\* a plausible slip: every identifier is quoted, followed by a colon or not
RECURSIVE aqkLoop_NoColonCheck(_, _, _, _)
aqkLoop_NoColonCheck(input, i, inQuotes, result) ==
    IF i > Len(input) THEN result
    ELSE LET char == input[i] IN
      IF char = DQ THEN aqkLoop_NoColonCheck(input, i + 1, ~inQuotes, Append(result, char))
      ELSE IF inQuotes THEN aqkLoop_NoColonCheck(input, i + 1, inQuotes, Append(result, char))
      ELSE IF isAlphaStart(char) THEN
             LET keyEnd == identEnd(input, i)
                 key    == SubSeq(input, i, keyEnd - 1)
                 next   == skipBlanks(input, keyEnd)
             IN aqkLoop_NoColonCheck(input, next, inQuotes, result \o <<DQ>> \o key \o <<DQ>>)
      ELSE aqkLoop_NoColonCheck(input, i + 1, inQuotes, Append(result, char))

RECURSIVE aqkLoop(_, _, _, _)
aqkLoop(input, i, inQuotes, result) ==
    IF i > Len(input) THEN result
    ELSE LET char == input[i] IN
      IF char = DQ THEN aqkLoop(input, i + 1, ~inQuotes, Append(result, char))
      ELSE IF inQuotes THEN aqkLoop(input, i + 1, inQuotes, Append(result, char))
      ELSE IF isAlphaStart(char) THEN
             LET keyEnd == identEnd(input, i)
                 key    == SubSeq(input, i, keyEnd - 1)
                 next   == skipBlanks(input, keyEnd)
             IN IF next <= Len(input) /\ input[next] = ":"
                THEN aqkLoop(input, next, inQuotes, result \o <<DQ>> \o key \o <<DQ>>)
                ELSE aqkLoop(input, next, inQuotes, result \o key)
      ELSE aqkLoop(input, i + 1, inQuotes, Append(result, char))

addQuotesToKeys(input) == aqkLoop(input, 1, FALSE, <<>>)

\* a plausible slip: the key-quoting pass is never applied
normalizeJavaScriptObject_NoKeys(input) == removeTrailingCommas(ReplaceAll(input, SQ, DQ))

normalizeJavaScriptObject(input) ==
    The({ IF Contains(cleaned, "{") /\ Contains(cleaned, ":")
          THEN addQuotesToKeys(cleaned)
          ELSE cleaned :
          cleaned \in {removeTrailingCommas(ReplaceAll(input, SQ, DQ))} })

\* splitArguments where either quote character closes an open quote
RECURSIVE saLoop_AnyQuoteCloses(_, _, _, _, _, _, _)
saLoop_AnyQuoteCloses(argsString, i, braceLevel, inQuotes, quoteChar, current, args) ==
    IF i > Len(argsString)
    THEN IF Len(current) > 0 THEN Append(args, TrimSpace(current)) ELSE args
    ELSE LET char == argsString[i] IN
      CASE char \in {DQ, SQ} ->
             saLoop_AnyQuoteCloses(argsString, i + 1, braceLevel, ~inQuotes, char,
                                   Append(current, char), args)
        [] char = "{" ->
             saLoop_AnyQuoteCloses(argsString, i + 1,
                                   IF inQuotes THEN braceLevel ELSE braceLevel + 1,
                                   inQuotes, quoteChar, Append(current, char), args)
        [] char = "}" ->
             saLoop_AnyQuoteCloses(argsString, i + 1,
                                   IF inQuotes THEN braceLevel ELSE braceLevel - 1,
                                   inQuotes, quoteChar, Append(current, char), args)
        [] char = "," ->
             IF ~inQuotes /\ braceLevel = 0
             THEN saLoop_AnyQuoteCloses(argsString, i + 1, braceLevel, inQuotes, quoteChar,
                                        <<>>, Append(args, TrimSpace(current)))
             ELSE saLoop_AnyQuoteCloses(argsString, i + 1, braceLevel, inQuotes, quoteChar,
                                        Append(current, char), args)
        [] OTHER ->
             saLoop_AnyQuoteCloses(argsString, i + 1, braceLevel, inQuotes, quoteChar,
                                   Append(current, char), args)

RECURSIVE saLoop(_, _, _, _, _, _, _)
saLoop(argsString, i, braceLevel, inQuotes, quoteChar, current, args) ==
    IF i > Len(argsString)
    THEN IF Len(current) > 0 THEN Append(args, TrimSpace(current)) ELSE args
    ELSE LET char == argsString[i] IN
      CASE char \in {DQ, SQ} ->
             IF ~inQuotes
             THEN saLoop(argsString, i + 1, braceLevel, TRUE, char, Append(current, char), args)
             ELSE IF char = quoteChar
                  THEN saLoop(argsString, i + 1, braceLevel, FALSE, quoteChar, Append(current, char), args)
                  ELSE saLoop(argsString, i + 1, braceLevel, inQuotes, quoteChar, Append(current, char), args)
        [] char = "{" ->
             saLoop(argsString, i + 1, IF inQuotes THEN braceLevel ELSE braceLevel + 1,
                    inQuotes, quoteChar, Append(current, char), args)
        [] char = "}" ->
             saLoop(argsString, i + 1, IF inQuotes THEN braceLevel ELSE braceLevel - 1,
                    inQuotes, quoteChar, Append(current, char), args)
        [] char = "," ->
             IF ~inQuotes /\ braceLevel = 0
             THEN saLoop(argsString, i + 1, braceLevel, inQuotes, quoteChar, <<>>,
                         Append(args, TrimSpace(current)))
             ELSE saLoop(argsString, i + 1, braceLevel, inQuotes, quoteChar, Append(current, char), args)
        [] OTHER ->
             saLoop(argsString, i + 1, braceLevel, inQuotes, quoteChar, Append(current, char), args)

splitArguments(argsString) == saLoop(argsString, 1, 0, FALSE, "", <<>>, <<>>)

(***************************************************************************)
(* Package encoding/json, as used through json.Unmarshal (utils.go:21).    *)
(* A decoded value is kept as its compact text (insignificant whitespace   *)
(* removed), its kind, and for an object its members.  Decoding into a Go  *)
(* map keeps one entry per key, the last one given.                        *)
(***************************************************************************)
JsonSpace == {" ", "\t", "\n", "\r"}

HexDigit == Digit \cup {"a","b","c","d","e","f","A","B","C","D","E","F"}

JsonFail == [ok |-> FALSE, next |-> 0, canon |-> <<>>, kind |-> "invalid", members |-> <<>>]

JsonOk(next, canon, kind, members) ==
    [ok |-> TRUE, next |-> next, canon |-> canon, kind |-> kind, members |-> members]

RECURSIVE jsonSkip(_, _)
jsonSkip(s, i) == IF i <= Len(s) /\ s[i] \in JsonSpace THEN jsonSkip(s, i + 1) ELSE i

RECURSIVE digitsEnd(_, _)
digitsEnd(s, i) == IF i <= Len(s) /\ s[i] \in Digit THEN digitsEnd(s, i + 1) ELSE i

\* index after the closing quote of the string whose opening quote is at i - 1;
\* 0 when the string is not a valid JSON string
RECURSIVE jsonStringEnd(_, _)
jsonStringEnd(s, j) ==
    IF j > Len(s) THEN 0
    ELSE IF s[j] = DQ THEN j + 1
    ELSE IF s[j] \in {"\t", "\n", "\r"} THEN 0
    ELSE IF s[j] = BSL THEN
           IF j + 1 > Len(s) THEN 0
           ELSE IF s[j + 1] \in {DQ, BSL, "/", "b", "f", "n", "r", "t"} THEN jsonStringEnd(s, j + 2)
           ELSE IF s[j + 1] = "u" /\ j + 5 <= Len(s) /\ \A k \in (j + 2)..(j + 5) : s[k] \in HexDigit
                THEN jsonStringEnd(s, j + 6)
           ELSE 0
    ELSE jsonStringEnd(s, j + 1)

jsonString(s, i) ==
    LET e == jsonStringEnd(s, i + 1) IN
    IF e = 0 THEN JsonFail ELSE JsonOk(e, SubSeq(s, i, e - 1), "string", <<>>)

jsonNumber(s, i) ==
    LET a == IF s[i] = "-" THEN i + 1 ELSE i
        b == IF a <= Len(s) /\ s[a] = "0" THEN a + 1
             ELSE IF a <= Len(s) /\ s[a] \in Digit THEN digitsEnd(s, a)
             ELSE 0
        c == IF b = 0 THEN 0
             ELSE IF b <= Len(s) /\ s[b] = "."
                  THEN (IF digitsEnd(s, b + 1) > b + 1 THEN digitsEnd(s, b + 1) ELSE 0)
                  ELSE b
        x == IF c # 0 /\ c <= Len(s) /\ s[c] \in {"e", "E"}
             THEN (IF c + 1 <= Len(s) /\ s[c + 1] \in {"+", "-"} THEN c + 2 ELSE c + 1)
             ELSE 0
        d == IF c = 0 THEN 0
             ELSE IF x = 0 THEN c
             ELSE IF digitsEnd(s, x) > x THEN digitsEnd(s, x) ELSE 0
    IN IF d = 0 THEN JsonFail ELSE JsonOk(d, SubSeq(s, i, d - 1), "number", <<>>)

jsonWord(s, i, word, kind) ==
    IF i + Len(word) - 1 <= Len(s) /\ SubSeq(s, i, i + Len(word) - 1) = word
    THEN JsonOk(i + Len(word), word, kind, <<>>)
    ELSE JsonFail

\* the entries of a map after m[key] = value
MapSet(members, key, canon, kind) ==
    Append(SelectSeq(members, LAMBDA m : m.key # key), [key |-> key, canon |-> canon, kind |-> kind])

RECURSIVE MembersText(_)
MembersText(members) ==
    IF members = <<>> THEN <<>>
    ELSE <<DQ>> \o members[1].key \o <<DQ, ":">> \o members[1].canon
         \o (IF Len(members) > 1 THEN <<",">> ELSE <<>>) \o MembersText(Tail(members))

RECURSIVE jsonValue(_, _)
RECURSIVE jsonMembers(_, _, _)
RECURSIVE jsonElements(_, _, _)
RECURSIVE jsonAfterMember(_, _, _)

\* what follows a member's value v: another member, or the end of the object
jsonAfterMember(s, v, ms) ==
    LET e == jsonSkip(s, v.next) IN
    IF e > Len(s) THEN JsonFail
    ELSE IF s[e] = "," THEN jsonMembers(s, e + 1, ms)
    ELSE IF s[e] = "}" THEN JsonOk(e + 1, <<"{">> \o MembersText(ms) \o <<"}">>, "object", ms)
    ELSE JsonFail

\* members of an object, from the key at or after i
jsonMembers(s, i, members) ==
    LET k   == jsonSkip(s, i)
        key == jsonString(s, k)
        c   == jsonSkip(s, key.next)
    IN IF k > Len(s) \/ s[k] # DQ THEN JsonFail
       ELSE IF ~key.ok THEN JsonFail
       ELSE IF c > Len(s) \/ s[c] # ":" THEN JsonFail
       ELSE The({ IF ~v.ok THEN JsonFail
                  ELSE jsonAfterMember(s, v, MapSet(members, SubSeq(key.canon, 2, Len(key.canon) - 1),
                                                    v.canon, v.kind)) :
                  v \in {jsonValue(s, c + 1)} })

\* elements of an array, from the value at or after i
jsonElements(s, i, canon) ==
    The({ IF ~v.ok THEN JsonFail
          ELSE LET e == jsonSkip(s, v.next) IN
            IF e > Len(s) THEN JsonFail
            ELSE IF s[e] = "," THEN jsonElements(s, e + 1, canon \o v.canon \o <<",">>)
            ELSE IF s[e] = "]" THEN JsonOk(e + 1, canon \o v.canon \o <<"]">>, "array", <<>>)
            ELSE JsonFail :
          v \in {jsonValue(s, i)} })

jsonValue(s, i) ==
    LET k == jsonSkip(s, i)
        n == jsonSkip(s, k + 1)
    IN IF k > Len(s) THEN JsonFail
       ELSE CASE s[k] = "{" ->
                   IF n <= Len(s) /\ s[n] = "}" THEN JsonOk(n + 1, <<"{", "}">>, "object", <<>>)
                   ELSE jsonMembers(s, k + 1, <<>>)
              [] s[k] = "[" ->
                   IF n <= Len(s) /\ s[n] = "]" THEN JsonOk(n + 1, <<"[", "]">>, "array", <<>>)
                   ELSE jsonElements(s, k + 1, <<"[">>)
              [] s[k] = DQ -> jsonString(s, k)
              [] s[k] = "-" \/ s[k] \in Digit -> jsonNumber(s, k)
              [] s[k] = "t" -> jsonWord(s, k, <<"t","r","u","e">>, "bool")
              [] s[k] = "f" -> jsonWord(s, k, <<"f","a","l","s","e">>, "bool")
              [] s[k] = "n" -> jsonWord(s, k, <<"n","u","l","l">>, "null")
              [] OTHER -> JsonFail

\* json.Valid: one value, surrounded by optional whitespace
jsonDecode(s) ==
    The({ IF v.ok /\ jsonSkip(s, v.next) = Len(s) + 1 THEN v ELSE JsonFail :
          v \in {jsonValue(s, 1)} })

\* what decoding into a map leaves: err, a nil map, or the map's entries
MapError == [err |-> TRUE, isNil |-> TRUE, canon |-> <<>>, members |-> <<>>]

\* json.Unmarshal into a map (map[string]interface{} or bson.M): an object
\* fills the map, null leaves it nil, any other value is a type error
UnmarshalMap(s) ==
    The({ IF ~v.ok THEN MapError
          ELSE IF v.kind = "object"
               THEN [err |-> FALSE, isNil |-> FALSE, canon |-> v.canon, members |-> v.members]
          ELSE IF v.kind = "null"
               THEN [err |-> FALSE, isNil |-> TRUE, canon |-> <<>>, members |-> <<>>]
          ELSE MapError :
          v \in {jsonDecode(s)} })

\* parseJSONLikeString with a map target
parseJSONLikeString(input) ==
    LET trimmed == TrimSpace(input) IN
    IF trimmed = <<>> THEN MapError
    ELSE UnmarshalMap(normalizeJavaScriptObject(trimmed))

(***************************************************************************)
(* parser.go                                                               *)
(***************************************************************************)
Txt_db == <<"d","b",".">>
Txt_dbCreateCollection == <<"d","b",".","c","r","e","a","t","e","C","o","l","l","e","c","t","i","o","n","(">>
Txt_comment == <<"/","/">>
Txt_createIndex == <<"c","r","e","a","t","e","I","n","d","e","x">>
Txt_insertOne == <<"i","n","s","e","r","t","O","n","e">>
Txt_insertMany == <<"i","n","s","e","r","t","M","a","n","y">>
Txt_updateOne == <<"u","p","d","a","t","e","O","n","e">>
Txt_updateMany == <<"u","p","d","a","t","e","M","a","n","y">>
Txt_deleteOne == <<"d","e","l","e","t","e","O","n","e">>
Txt_deleteMany == <<"d","e","l","e","t","e","M","a","n","y">>
Txt_createCollection == <<"c","r","e","a","t","e","C","o","l","l","e","c","t","i","o","n">>
Txt_unique == <<"u","n","i","q","u","e">>
Txt_name == <<"n","a","m","e">>
Txt_validator == <<"v","a","l","i","d","a","t","o","r">>

\* a plausible slip: braces are counted inside quoted literals too
RECURSIVE scanLine_NoQuotes(_, _, _)
scanLine_NoQuotes(line, i, st) ==
    IF i > Len(line) THEN st
    ELSE LET char == line[i] IN
      CASE char = "{" ->
             scanLine_NoQuotes(line, i + 1, [st EXCEPT !.braceLevel = st.braceLevel + 1])
        [] char = "}" ->
             scanLine_NoQuotes(line, i + 1, [st EXCEPT !.braceLevel = st.braceLevel - 1])
        [] OTHER -> scanLine_NoQuotes(line, i + 1, st)

\* the quote and brace count of splitIntoStatements over one line
RECURSIVE scanLine(_, _, _)
scanLine(line, i, st) ==
    IF i > Len(line) THEN st
    ELSE LET char == line[i] IN
      CASE char \in {DQ, SQ} ->
             IF ~st.inQuotes
             THEN scanLine(line, i + 1, [st EXCEPT !.inQuotes = TRUE, !.quoteChar = char])
             ELSE IF char = st.quoteChar
                  THEN scanLine(line, i + 1, [st EXCEPT !.inQuotes = FALSE])
                  ELSE scanLine(line, i + 1, st)
        [] char = "{" ->
             scanLine(line, i + 1,
                      IF st.inQuotes THEN st ELSE [st EXCEPT !.braceLevel = st.braceLevel + 1])
        [] char = "}" ->
             scanLine(line, i + 1,
                      IF st.inQuotes THEN st ELSE [st EXCEPT !.braceLevel = st.braceLevel - 1])
        [] OTHER -> scanLine(line, i + 1, st)

RECURSIVE sisLoop(_, _, _, _, _)
sisLoop(lines, n, st, current, statements) ==
    IF n > Len(lines)
    THEN IF Len(current) > 0 THEN Append(statements, current) ELSE statements
    ELSE LET line   == TrimSpace(lines[n])
             buffer == (IF Len(current) > 0 THEN Append(current, " ") ELSE current) \o line
         IN IF line = <<>> \/ HasPrefix(line, Txt_comment)
            THEN sisLoop(lines, n + 1, st, current, statements)
            ELSE The({ IF HasSuffix(line, <<";">>) /\ after.braceLevel = 0 /\ ~after.inQuotes
                       THEN sisLoop(lines, n + 1, after, <<>>, Append(statements, buffer))
                       ELSE sisLoop(lines, n + 1, after, buffer, statements) :
                       after \in {scanLine(line, 1, st)} })

splitIntoStatements(jsContent) ==
    sisLoop(SplitLines(jsContent), 1,
            [braceLevel |-> 0, inQuotes |-> FALSE, quoteChar |-> ""], <<>>, <<>>)

\* A parsed operation (types.go MongoOperation).  Arguments holds the compact
\* text of each document, <<>> for a nil map; IndexSpec the bson.D entries.
NoIndexOptions == [present |-> FALSE, hasUnique |-> FALSE, unique |-> FALSE,
                   hasName |-> FALSE, name |-> <<>>]

MongoOperation(type, collection, operation) ==
    [Type |-> type, Collection |-> collection, Operation |-> operation,
     Arguments |-> <<>>, HasIndexSpec |-> FALSE, IndexSpec |-> <<>>,
     IndexOptions |-> NoIndexOptions, HasValidator |-> FALSE, Validator |-> <<>>]

\* what a parse function returns: (op, nil), (nil, err) or (nil, nil)
Parsed(op) == [err |-> FALSE, ops |-> <<op>>]
ParseError == [err |-> TRUE, ops |-> <<>>]
ParsedNothing == [err |-> FALSE, ops |-> <<>>]

\* Package strconv, on decimal texts
DigitValue(c) == CHOOSE n \in 0..9 : <<"0","1","2","3","4","5","6","7","8","9">>[n + 1] = c

RECURSIVE NatOf(_)
NatOf(digits) ==
    IF digits = <<>> THEN 0
    ELSE NatOf(SubSeq(digits, 1, Len(digits) - 1)) * 10 + DigitValue(digits[Len(digits)])

AllDigits(t) == t # <<>> /\ \A i \in 1..Len(t) : t[i] \in Digit

Unsigned(t) == IF t # <<>> /\ t[1] \in {"+", "-"} THEN Tail(t) ELSE t

\* strconv.Atoi succeeds: an optional sign and decimal digits
IsIntText(t) == AllDigits(Unsigned(t))

Atoi(t) == IF t[1] = "-" THEN 0 - NatOf(Unsigned(t)) ELSE NatOf(Unsigned(t))

\* the parts of a decimal floating-point text: sign, integer digits,
\* fraction digits, exponent; ok tells whether the text is one
FloatParts(t) ==
    LET body    == Unsigned(t)
        intEnd  == digitsEnd(body, 1)
        hasDot  == intEnd <= Len(body) /\ body[intEnd] = "."
        fracEnd == IF hasDot THEN digitsEnd(body, intEnd + 1) ELSE intEnd
    IN The({ [ok    |-> /\ Len(ints) + Len(fracs) > 0
                        /\ \/ rest = <<>>
                           \/ rest[1] \in {"e", "E"} /\ IsIntText(Tail(rest)),
              neg   |-> t # <<>> /\ t[1] = "-",
              ints  |-> ints,
              fracs |-> fracs,
              exp   |-> IF rest # <<>> /\ IsIntText(Tail(rest)) THEN Atoi(Tail(rest)) ELSE 0] :
             ints \in {SubSeq(body, 1, intEnd - 1)},
             fracs \in {SubSeq(body, intEnd + 1, fracEnd - 1)},
             rest \in {SubSeq(body, fracEnd, Len(body))} })

\* strconv.ParseFloat succeeds (decimal forms)
IsFloatText(t) == t # <<>> /\ FloatParts(t).ok

\* v == float64(int(v)) for the value a decimal text denotes
IsWhole(t) ==
    \A p \in {FloatParts(t)} :
      \A i \in 1..Len(p.ints \o p.fracs) :
         i > Len(p.ints) + p.exp => (p.ints \o p.fracs)[i] = "0"

\* int(v) for a whole value
WholeValue(t) ==
    The({ LET kept == IF Len(p.ints) + p.exp <= 0 THEN <<>>
                      ELSE [i \in 1..(Len(p.ints) + p.exp) |->
                              IF i <= Len(p.ints \o p.fracs) THEN (p.ints \o p.fracs)[i] ELSE "0"]
          IN IF p.neg THEN 0 - NatOf(kept) ELSE NatOf(kept) :
          p \in {FloatParts(t)} })

\* A value of an index specification: an int, a float64 (its text), or
\* the decoded value left as it is (its kind and text)
IntValue(n) == [kind |-> "int", num |-> n, text |-> <<>>]
FloatValue(t) == [kind |-> "float", num |-> 0, text |-> t]
SameValue(m) == [kind |-> m.kind, num |-> 0, text |-> m.canon]

\* convertToNumber on a decoded member m; err stands for the error return
convertToNumber(m) ==
    LET v == SubSeq(m.canon, 2, Len(m.canon) - 1) IN
    CASE m.kind = "string" ->
           IF Contains(v, ".")
           THEN IF IsFloatText(v) THEN [err |-> FALSE, value |-> FloatValue(v)]
                ELSE [err |-> TRUE, value |-> SameValue(m)]
           ELSE IF IsIntText(v) THEN [err |-> FALSE, value |-> IntValue(Atoi(v))]
                ELSE [err |-> TRUE, value |-> SameValue(m)]
      [] m.kind = "number" ->
           IF IsWhole(m.canon) THEN [err |-> FALSE, value |-> IntValue(WholeValue(m.canon))]
           ELSE [err |-> FALSE, value |-> FloatValue(m.canon)]
      [] OTHER -> [err |-> TRUE, value |-> SameValue(m)]

\* one bson.E of the index specification
indexEntry(m) ==
    The({ [Key |-> m.key, Value |-> IF ~n.err THEN n.value ELSE SameValue(m)] :
          n \in {convertToNumber(m)} })

\* the orders in which a range over a Go map can visit its entries
MapOrders(members) ==
    {[i \in 1..Len(members) |-> members[f[i]]] :
        f \in {g \in [1..Len(members) -> 1..Len(members)] :
                 \A a, b \in 1..Len(members) : a # b => g[a] # g[b]}}

MapGet(members, key) ==
    IF \E i \in 1..Len(members) : members[i].key = key
    THEN [ok |-> TRUE, m |-> members[CHOOSE i \in 1..Len(members) : members[i].key = key]]
    ELSE [ok |-> FALSE, m |-> [key |-> key, canon |-> <<>>, kind |-> "invalid"]]

indexOptions(members) ==
    LET unique == MapGet(members, Txt_unique)
        name   == MapGet(members, Txt_name)
    IN [present   |-> TRUE,
        hasUnique |-> unique.ok /\ unique.m.kind = "bool",
        unique    |-> unique.ok /\ unique.m.kind = "bool" /\ unique.m.canon = <<"t","r","u","e">>,
        hasName   |-> name.ok /\ name.m.kind = "string",
        name      |-> IF name.ok /\ name.m.kind = "string"
                      THEN SubSeq(name.m.canon, 2, Len(name.m.canon) - 1) ELSE <<>>]

\* the second argument of createIndex or createCollection, decoded; an
\* error stands for "not given"
optionsOf(args) ==
    IF Len(args) > 1 THEN parseJSONLikeString(TrimSpace(args[2])) ELSE MapError

\* a plausible slip: an index without a specification is an error
parseCreateIndex_RequiresSpec(collection, argsString) ==
    LET op == MongoOperation("createIndex", collection, Txt_createIndex) IN
    UNION { IF Len(args) = 0 THEN {ParseError}
            ELSE UNION { IF spec.err THEN {ParseError}
                         ELSE {Parsed([op EXCEPT
                                   !.HasIndexSpec = Len(order) > 0,
                                   !.IndexSpec = [i \in 1..Len(order) |-> indexEntry(order[i])],
                                   !.IndexOptions = IF ~opts.err THEN indexOptions(opts.members)
                                                    ELSE NoIndexOptions]) :
                               order \in MapOrders(spec.members)} :
                         spec \in {parseJSONLikeString(TrimSpace(args[1]))},
                         opts \in {optionsOf(args)} } :
            args \in {splitArguments(argsString)} }

\* parseCreateIndex: the set of results it can return, one per order in
\* which the range over indexSpecMap visits the map
parseCreateIndex(collection, argsString) ==
    LET op == MongoOperation("createIndex", collection, Txt_createIndex) IN
    UNION { IF Len(args) = 0 THEN {Parsed(op)}
            ELSE UNION { IF spec.err THEN {ParseError}
                         ELSE {Parsed([op EXCEPT
                                   !.HasIndexSpec = Len(order) > 0,
                                   !.IndexSpec = [i \in 1..Len(order) |-> indexEntry(order[i])],
                                   !.IndexOptions = IF ~opts.err THEN indexOptions(opts.members)
                                                    ELSE NoIndexOptions]) :
                               order \in MapOrders(spec.members)} :
                         spec \in {parseJSONLikeString(TrimSpace(args[1]))},
                         opts \in {optionsOf(args)} } :
            args \in {splitArguments(argsString)} }

\* a plausible slip: a nil document is not stored
parseInsert_SkipsNil(collection, operation, argsString) ==
    The({ IF document.err THEN ParseError
          ELSE Parsed([MongoOperation("insert", collection, operation) EXCEPT
                          !.Arguments = IF document.isNil THEN <<>> ELSE <<document.canon>>]) :
          document \in {parseJSONLikeString(argsString)} })

parseInsert(collection, operation, argsString) ==
    The({ IF document.err THEN ParseError
          ELSE Parsed([MongoOperation("insert", collection, operation) EXCEPT
                          !.Arguments = <<document.canon>>]) :
          document \in {parseJSONLikeString(argsString)} })

\* a plausible slip: one argument is enough, and the operation then holds
\* the filter alone
parseUpdate_Partial(collection, operation, argsString) ==
    The({ IF Len(args) < 1 THEN ParseError
          ELSE The({ IF filter.err THEN ParseError
                     ELSE Parsed([MongoOperation("update", collection, operation) EXCEPT
                                     !.Arguments = <<filter.canon>>]) :
                     filter \in {parseJSONLikeString(args[1])} }) :
          args \in {splitArguments(argsString)} })

\* a plausible slip: anything but two arguments is an error
parseUpdate_ExactlyTwo(collection, operation, argsString) ==
    The({ IF Len(args) # 2 THEN ParseError
          ELSE The({ IF filter.err \/ update.err THEN ParseError
                     ELSE Parsed([MongoOperation("update", collection, operation) EXCEPT
                                     !.Arguments = <<filter.canon, update.canon>>]) :
                     filter \in {parseJSONLikeString(args[1])},
                     update \in {parseJSONLikeString(args[2])} }) :
          args \in {splitArguments(argsString)} })

parseUpdate(collection, operation, argsString) ==
    The({ IF Len(args) < 2 THEN ParseError
          ELSE The({ IF filter.err \/ update.err THEN ParseError
                     ELSE Parsed([MongoOperation("update", collection, operation) EXCEPT
                                     !.Arguments = <<filter.canon, update.canon>>]) :
                     filter \in {parseJSONLikeString(args[1])},
                     update \in {parseJSONLikeString(args[2])} }) :
          args \in {splitArguments(argsString)} })

parseDelete(collection, operation, argsString) ==
    The({ IF filter.err THEN ParseError
          ELSE Parsed([MongoOperation("delete", collection, operation) EXCEPT
                          !.Arguments = <<filter.canon>>]) :
          filter \in {parseJSONLikeString(argsString)} })

\* a plausible slip: options["validator"] is stored whatever its type
parseDbCreateCollection_AnyValidator(statement) ==
    LET parenStart == Index(statement, "(")
        parenEnd   == LastIndex(statement, ")")
    IN IF parenStart = 0 \/ parenEnd = 0 THEN ParseError
       ELSE The({ IF Len(args) = 0 THEN ParseError
                  ELSE The({ LET op == MongoOperation("createCollection",
                                                      TrimCut(args[1], {DQ, SQ}),
                                                      Txt_createCollection)
                                 validator == MapGet(options.members, Txt_validator)
                             IN IF ~options.err /\ validator.ok
                                THEN Parsed([op EXCEPT !.HasValidator = TRUE,
                                                       !.Validator = validator.m.canon])
                                ELSE Parsed(op) :
                             options \in {optionsOf(args)} }) :
                  args \in {splitArguments(SubSeq(statement, parenStart + 1, parenEnd - 1))} })

parseDbCreateCollection(statement) ==
    LET parenStart == Index(statement, "(")
        parenEnd   == LastIndex(statement, ")")
    IN IF parenStart = 0 \/ parenEnd = 0 THEN ParseError
       ELSE The({ IF Len(args) = 0 THEN ParseError
                  ELSE The({ LET op == MongoOperation("createCollection",
                                                      TrimCut(args[1], {DQ, SQ}),
                                                      Txt_createCollection)
                                 validator == MapGet(options.members, Txt_validator)
                             IN IF ~options.err /\ validator.ok /\ validator.m.kind = "object"
                                THEN Parsed([op EXCEPT !.HasValidator = TRUE,
                                                       !.Validator = validator.m.canon])
                                ELSE Parsed(op) :
                             options \in {optionsOf(args)} }) :
                  args \in {splitArguments(SubSeq(statement, parenStart + 1, parenEnd - 1))} })

\* index of the ')' that closes the '(' at parenIndex, 0 when there is none
RECURSIVE closingParen(_, _, _)
closingParen(text, i, openCount) ==
    IF i > Len(text) THEN 0
    ELSE IF text[i] = "(" THEN closingParen(text, i + 1, openCount + 1)
    ELSE IF text[i] = ")"
         THEN IF openCount - 1 = 0 THEN i ELSE closingParen(text, i + 1, openCount - 1)
    ELSE closingParen(text, i + 1, openCount)

\* a plausible slip: an unsupported operation is an error of the statement
dispatch_UnsupportedIsError(collection, operation, argsString) ==
    CASE operation = Txt_createIndex -> parseCreateIndex(collection, argsString)
      [] operation \in {Txt_insertOne, Txt_insertMany} ->
           {parseInsert(collection, operation, argsString)}
      [] operation \in {Txt_updateOne, Txt_updateMany} ->
           {parseUpdate(collection, operation, argsString)}
      [] operation \in {Txt_deleteOne, Txt_deleteMany} ->
           {parseDelete(collection, operation, argsString)}
      [] OTHER -> {ParseError}

\* the switch of parseMongoStatement on the operation name
dispatch(collection, operation, argsString) ==
    CASE operation = Txt_createIndex -> parseCreateIndex(collection, argsString)
      [] operation \in {Txt_insertOne, Txt_insertMany} ->
           {parseInsert(collection, operation, argsString)}
      [] operation \in {Txt_updateOne, Txt_updateMany} ->
           {parseUpdate(collection, operation, argsString)}
      [] operation \in {Txt_deleteOne, Txt_deleteMany} ->
           {parseDelete(collection, operation, argsString)}
      [] OTHER -> {ParsedNothing}

\* parseMongoStatement: the set of results it can return
parseMongoStatement(stmt) ==
    LET statement     == TrimSuffix(TrimSpace(stmt), <<";">>)
        firstDot      == Index(statement, ".")
        rel           == Index(SubSeq(statement, firstDot + 1, Len(statement)), ".")
        secondDot     == rel + firstDot
        operationPart == SubSeq(statement, secondDot + 1, Len(statement))
        parenIndex    == Index(operationPart, "(")
        closeIndex    == closingParen(operationPart, parenIndex, 0)
    IN IF HasPrefix(statement, Txt_dbCreateCollection) THEN {parseDbCreateCollection(statement)}
       ELSE IF ~HasPrefix(statement, Txt_db) THEN {ParseError}
       ELSE IF firstDot = 0 \/ firstDot # 3 THEN {ParseError}
       ELSE IF rel = 0 THEN {ParseError}
       ELSE IF parenIndex = 0 THEN {ParseError}
       ELSE IF closeIndex = 0 THEN {ParseError}
       ELSE dispatch(SubSeq(statement, firstDot + 1, secondDot - 1),
                     SubSeq(operationPart, 1, parenIndex - 1),
                     SubSeq(operationPart, parenIndex + 1, closeIndex - 1))

\* the body of the loop of parseJavaScriptOperations up to the error test:
\* the set of results parseMongoStatement can give for the statement, or
\* nothing for a statement the loop skips
parseStatement(stmt) ==
    LET statement == TrimSpace(stmt) IN
    IF statement = <<>> \/ HasPrefix(statement, Txt_comment) THEN {ParsedNothing}
    ELSE IF HasPrefix(statement, Txt_db) /\ Contains(statement, "(")
         THEN parseMongoStatement(statement)
         ELSE {ParsedNothing}

\* a plausible slip: the first statement that fails ends the parse with an error
RECURSIVE pjoLoop_ReturnsError(_, _, _)
pjoLoop_ReturnsError(statements, n, operations) ==
    IF n > Len(statements) THEN {[err |-> FALSE, operations |-> operations]}
    ELSE UNION {IF r.err THEN {[err |-> TRUE, operations |-> <<>>]}
                ELSE pjoLoop_ReturnsError(statements, n + 1, operations \o r.ops) :
                   r \in parseStatement(statements[n])}

\* a plausible slip: a new operation is put in front of the others
RECURSIVE pjoLoop_Prepends(_, _, _)
pjoLoop_Prepends(statements, n, operations) ==
    IF n > Len(statements) THEN {[err |-> FALSE, operations |-> operations]}
    ELSE UNION {IF r.err THEN pjoLoop_Prepends(statements, n + 1, operations)
                ELSE pjoLoop_Prepends(statements, n + 1, r.ops \o operations) :
                   r \in parseStatement(statements[n])}

\* the loop of parseJavaScriptOperations from statement n on: a statement
\* that fails is logged and skipped (continue)
RECURSIVE pjoLoop(_, _, _)
pjoLoop(statements, n, operations) ==
    IF n > Len(statements) THEN {[err |-> FALSE, operations |-> operations]}
    ELSE UNION {IF r.err THEN pjoLoop(statements, n + 1, operations)
                ELSE pjoLoop(statements, n + 1, operations \o r.ops) :
                   r \in parseStatement(statements[n])}

\* parseJavaScriptOperations: the set of results it can return
parseJavaScriptOperations(jsContent) == pjoLoop(splitIntoStatements(jsContent), 1, <<>>)

(***************************************************************************)
(* ParseMetadata                                                           *)
(***************************************************************************)

Txt_metadata == <<"/","/"," ","M","E","T","A","D","A","T","A",":">>

Letters == <<"a","b","c","d","e","f","g","h","i","j","k","l","m",
             "n","o","p","q","r","s","t","u","v","w","x","y","z">>
Capitals == <<"A","B","C","D","E","F","G","H","I","J","K","L","M",
              "N","O","P","Q","R","S","T","U","V","W","X","Y","Z">>

\* the key as encoding/json matches it with a field name: letter case ignored
FoldCase(s) ==
    [i \in 1..Len(s) |->
       IF s[i] \in Upper THEN Letters[CHOOSE k \in 1..26 : Capitals[k] = s[i]] ELSE s[i]]

\* the string fields of ScriptMetadata, by their json names
StringFields == {<<"n","a","m","e">>, <<"d","e","s","c","r","i","p","t","i","o","n">>, <<"v","e","r","s","i","o","n">>, <<"a","u","t","h","o","r">>, <<"s","t","a","t","u","s">>, <<"e","r","r","o","r">>}

\* time.Time accepts an RFC 3339 text; the form yyyy-mm-ddThh:mm:ssZ is modelled
IsTimeText(t) ==
    /\ Len(t) = 20
    /\ \A i \in {1, 2, 3, 4, 6, 7, 9, 10, 12, 13, 15, 16, 18, 19} : t[i] \in Digit
    /\ t[5] = "-" /\ t[8] = "-" /\ t[11] = "T" /\ t[14] = ":" /\ t[17] = ":" /\ t[20] = "Z"

\* the elements of the JSON array canon from position i on, for a []string
\* target: ok when every element is a string or null
RECURSIVE stringElements(_, _, _)
stringElements(canon, i, items) ==
    The({ IF ~v.ok \/ v.kind \notin {"string", "null"} THEN [ok |-> FALSE, items |-> <<>>]
          ELSE The({ IF canon[v.next] = "]" THEN [ok |-> TRUE, items |-> all]
                     ELSE stringElements(canon, v.next + 1, all) :
                     all \in {Append(items, IF v.kind = "string"
                                            THEN SubSeq(v.canon, 2, Len(v.canon) - 1)
                                            ELSE <<>>)} }) :
          v \in {jsonValue(canon, i)} })

\* the zero ScriptMetadata
ZeroMetadata ==
    [isNil |-> FALSE, Name |-> <<>>, Description |-> <<>>, Version |-> <<>>,
     Author |-> <<>>, Dependencies |-> <<>>, ExecutedAt |-> <<>>, Status |-> <<>>,
     Error |-> <<>>]

\* the nil *ScriptMetadata
NilMetadata == [ZeroMetadata EXCEPT !.isNil = TRUE]

\* one member of the decoded object stored in the struct; err stands for an
\* UnmarshalTypeError.  A string is kept as its text between the quotes.
setField(md, m) ==
    LET field == FoldCase(m.key)
        text  == SubSeq(m.canon, 2, Len(m.canon) - 1)
    IN CASE m.kind = "null" \/ field \notin (StringFields \cup {<<"d","e","p","e","n","d","e","n","c","i","e","s">>, <<"e","x","e","c","u","t","e","d","_","a","t">>}) ->
              [err |-> FALSE, md |-> md]
         [] field \in StringFields ->
              IF m.kind # "string" THEN [err |-> TRUE, md |-> md]
              ELSE [err |-> FALSE,
                    md  |-> CASE field = <<"n","a","m","e">> -> [md EXCEPT !.Name = text]
                              [] field = <<"d","e","s","c","r","i","p","t","i","o","n">> -> [md EXCEPT !.Description = text]
                              [] field = <<"v","e","r","s","i","o","n">> -> [md EXCEPT !.Version = text]
                              [] field = <<"a","u","t","h","o","r">> -> [md EXCEPT !.Author = text]
                              [] field = <<"s","t","a","t","u","s">> -> [md EXCEPT !.Status = text]
                              [] OTHER -> [md EXCEPT !.Error = text]]
         [] field = <<"d","e","p","e","n","d","e","n","c","i","e","s">> ->
              IF m.kind # "array" THEN [err |-> TRUE, md |-> md]
              ELSE IF m.canon = <<"[", "]">>
                   THEN [err |-> FALSE, md |-> [md EXCEPT !.Dependencies = <<>>]]
              ELSE The({ [err |-> ~e.ok,
                          md  |-> IF e.ok THEN [md EXCEPT !.Dependencies = e.items] ELSE md] :
                         e \in {stringElements(m.canon, 2, <<>>)} })
         [] OTHER ->
              IF m.kind = "string" /\ IsTimeText(text)
              THEN [err |-> FALSE, md |-> [md EXCEPT !.ExecutedAt = text]]
              ELSE [err |-> TRUE, md |-> md]

RECURSIVE setFields(_, _, _, _)
setFields(members, n, md, err) ==
    IF n > Len(members) THEN [err |-> err, md |-> md]
    ELSE The({ setFields(members, n + 1, r.md, err \/ r.err) :
               r \in {setField(md, members[n])} })

\* json.Unmarshal into a ScriptMetadata
UnmarshalMetadata(s) ==
    The({ IF ~v.ok THEN [err |-> TRUE, md |-> ZeroMetadata]
          ELSE IF v.kind = "null" THEN [err |-> FALSE, md |-> ZeroMetadata]
          ELSE IF v.kind = "object" THEN setFields(v.members, 1, ZeroMetadata, FALSE)
          ELSE [err |-> TRUE, md |-> ZeroMetadata] :
          v \in {jsonDecode(s)} })

\* a plausible slip: a line that is not a comment does not end the block
RECURSIVE pmLoop_NoBreak(_, _, _, _)
pmLoop_NoBreak(lines, n, inMetadata, metadataLines) ==
    IF n > Len(lines) THEN metadataLines
    ELSE LET line == TrimSpace(lines[n])
             metadataLine == TrimSpace(TrimPrefix(line, Txt_comment))
         IN IF HasPrefix(line, Txt_metadata)
            THEN pmLoop_NoBreak(lines, n + 1, TRUE, metadataLines)
            ELSE IF inMetadata /\ HasPrefix(line, Txt_comment) /\ metadataLine # <<>>
                 THEN pmLoop_NoBreak(lines, n + 1, TRUE, Append(metadataLines, metadataLine))
                 ELSE pmLoop_NoBreak(lines, n + 1, inMetadata, metadataLines)

\* the loop of ParseMetadata from line n on: the metadata lines collected
RECURSIVE pmLoop(_, _, _, _)
pmLoop(lines, n, inMetadata, metadataLines) ==
    IF n > Len(lines) THEN metadataLines
    ELSE LET line == TrimSpace(lines[n])
             metadataLine == TrimSpace(TrimPrefix(line, Txt_comment))
         IN IF HasPrefix(line, Txt_metadata)
            THEN pmLoop(lines, n + 1, TRUE, metadataLines)
            ELSE IF inMetadata
                 THEN IF HasPrefix(line, Txt_comment)
                      THEN pmLoop(lines, n + 1, TRUE,
                                  IF metadataLine # <<>> THEN Append(metadataLines, metadataLine)
                                  ELSE metadataLines)
                      ELSE metadataLines
                 ELSE pmLoop(lines, n + 1, FALSE, metadataLines)

ParseMetadata(content) ==
    The({ IF Len(metadataLines) = 0 THEN NilMetadata
          ELSE The({ IF r.err THEN NilMetadata ELSE r.md :
                     r \in {UnmarshalMetadata(Join(metadataLines, <<>>))} }) :
          metadataLines \in {pmLoop(SplitLines(content), 1, FALSE, <<>>)} })

(***************************************************************************)
(* executor.go                                                             *)
(***************************************************************************)

\* the guards of executeMongoOperation and of the execute* functions that
\* return an error before any database call
executeGuardFails(op) ==
    CASE op.Type = "createCollection" -> FALSE
      [] op.Type = "createIndex" -> FALSE
      [] op.Type = "insert" ->
           Len(op.Arguments) = 0 \/ op.Operation \notin {Txt_insertOne, Txt_insertMany}
      [] op.Type = "update" ->
           Len(op.Arguments) < 2 \/ op.Operation \notin {Txt_updateOne, Txt_updateMany}
      [] op.Type = "delete" ->
           Len(op.Arguments) = 0 \/ op.Operation \notin {Txt_deleteOne, Txt_deleteMany}
      [] OTHER -> TRUE

\* The database behind the driver calls of executor.go: the names of its
\* collections and the indexes, each a collection with its key
\* specification.  A database that is not reliable may return an error from
\* any call.
EmptyDatabase(reliable) == [collections |-> {}, indexes |-> {}, reliable |-> reliable]

NoDatabase == EmptyDatabase(FALSE)

\* what the database call made for op can return: "ok", "exists" for an
\* error whose text contains "already exists", "error" for any other error.
\* A collection that exists is not created again; creating an index that
\* exists does nothing or is refused; an index without keys is refused.
dbOutcomes(database, op) ==
    (IF database.reliable THEN {} ELSE {"error"})
    \cup
    CASE op.Type = "createCollection" ->
           IF op.Collection \in database.collections THEN {"exists"} ELSE {"ok"}
      [] op.Type = "createIndex" ->
           IF op.IndexSpec = <<>> THEN {"error"}
           ELSE IF <<op.Collection, op.IndexSpec>> \in database.indexes
                THEN {"ok", "exists"} ELSE {"ok"}
      [] OTHER -> {"ok"}

\* the database after the call made for op returned "ok"; a collection is
\* created by the first index or document put into it
dbAfter(database, op) ==
    CASE op.Type = "createCollection" ->
           [database EXCEPT !.collections = @ \cup {op.Collection}]
      [] op.Type = "createIndex" ->
           [database EXCEPT !.collections = @ \cup {op.Collection},
                            !.indexes = @ \cup {<<op.Collection, op.IndexSpec>>}]
      [] op.Type = "insert" ->
           [database EXCEPT !.collections = @ \cup {op.Collection}]
      [] OTHER -> database

\* executeCreateCollection past the call: an "already exists" error is a result
executeCreateCollection(outcome) ==
    CASE outcome = "ok" -> [err |-> FALSE, value |-> "Collection created"]
      [] outcome = "exists" -> [err |-> FALSE, value |-> "Collection already exists"]
      [] OTHER -> [err |-> TRUE, value |-> "nil"]

\* executeCreateIndex past the call: an "already exists" error is a result
executeCreateIndex(outcome) ==
    CASE outcome = "ok" -> [err |-> FALSE, value |-> "Index created"]
      [] outcome = "exists" -> [err |-> FALSE, value |-> "Index already exists"]
      [] OTHER -> [err |-> TRUE, value |-> "nil"]

\* executeInsert, executeUpdate, executeDelete past the call
executeInsert(op, outcome) ==
    IF outcome = "ok"
    THEN [err |-> FALSE,
          value |-> IF op.Operation = Txt_insertOne THEN "InsertedID" ELSE "InsertedIDs"]
    ELSE [err |-> TRUE, value |-> "nil"]

executeUpdate(outcome) ==
    IF outcome = "ok" THEN [err |-> FALSE, value |-> "ModifiedCount"]
    ELSE [err |-> TRUE, value |-> "nil"]

executeDelete(outcome) ==
    IF outcome = "ok" THEN [err |-> FALSE, value |-> "DeletedCount"]
    ELSE [err |-> TRUE, value |-> "nil"]

\* executeMongoOperation for an operation that passed the guards, given
\* what the database call returned
executeMongoOperation(op, outcome) ==
    CASE op.Type = "createCollection" -> executeCreateCollection(outcome)
      [] op.Type = "createIndex" -> executeCreateIndex(outcome)
      [] op.Type = "insert" -> executeInsert(op, outcome)
      [] op.Type = "update" -> executeUpdate(outcome)
      [] OTHER -> executeDelete(outcome)

(***************************************************************************)
(* Scripts                                                                 *)
(***************************************************************************)

\* db.users.insertOne({name:'Ann', age:30});
Stmt_insertOne == <<"d","b",".","u","s","e","r","s",".","i","n","s","e","r","t","O","n","e","(","{","n","a","m","e",":",SQ,"A","n","n",SQ,","," ","a","g","e",":","3","0","}",")",";">>
\* db.users.updateOne({a:1}, {$set:{b:2}});
Stmt_updateOne == <<"d","b",".","u","s","e","r","s",".","u","p","d","a","t","e","O","n","e","(","{","a",":","1","}",","," ","{","$","s","e","t",":","{","b",":","2","}","}",")",";">>
\* db.users.deleteMany({a:"x;y"});
Stmt_deleteMany == <<"d","b",".","u","s","e","r","s",".","d","e","l","e","t","e","M","a","n","y","(","{","a",":",DQ,"x",";","y",DQ,"}",")",";">>
\* db.users.createIndex({email:1}, {unique:true});
Stmt_createIndex == <<"d","b",".","u","s","e","r","s",".","c","r","e","a","t","e","I","n","d","e","x","(","{","e","m","a","i","l",":","1","}",","," ","{","u","n","i","q","u","e",":","t","r","u","e","}",")",";">>
\* db.createCollection("users");
Stmt_createCollection == <<"d","b",".","c","r","e","a","t","e","C","o","l","l","e","c","t","i","o","n","(",DQ,"u","s","e","r","s",DQ,")",";">>
\* db.users.updateOne({a:1});           one argument where two are needed
Stmt_arity == <<"d","b",".","u","s","e","r","s",".","u","p","d","a","t","e","O","n","e","(","{","a",":","1","}",")",";">>
\* db.users.insertOne({a:1};            no closing parenthesis
Stmt_paren == <<"d","b",".","u","s","e","r","s",".","i","n","s","e","r","t","O","n","e","(","{","a",":","1","}",";">>
\* db.insertOne({a:1});                 no collection
Stmt_shape == <<"d","b",".","i","n","s","e","r","t","O","n","e","(","{","a",":","1","}",")",";">>
\* db.users.insertOne({a:});            not JSON after normalization
Stmt_badJson == <<"d","b",".","u","s","e","r","s",".","i","n","s","e","r","t","O","n","e","(","{","a",":","}",")",";">>
\* db.createCollection("c", {validator:{a:"x" b:1}});   a comma is missing
Stmt_badOptions == <<"d","b",".","c","r","e","a","t","e","C","o","l","l","e","c","t","i","o","n","(",DQ,"c",DQ,","," ","{","v","a","l","i","d","a","t","o","r",":","{","a",":",DQ,"x",DQ," ","b",":","1","}","}",")",";">>
\* db.users.find({a:1});                a method outside the fixed set
Stmt_find == <<"d","b",".","u","s","e","r","s",".","f","i","n","d","(","{","a",":","1","}",")",";">>
\* db.users.createIndex({b:1, a:-1});
Stmt_createIndex2 == <<"d","b",".","u","s","e","r","s",".","c","r","e","a","t","e","I","n","d","e","x","(","{","b",":","1",","," ","a",":","-","1","}",")",";">>
\* db.users.insertMany([{a:1}, {b:2}]);
Stmt_insertMany == <<"d","b",".","u","s","e","r","s",".","i","n","s","e","r","t","M","a","n","y","(","[","{","a",":","1","}",","," ","{","b",":","2","}","]",")",";">>
\* // db.users.insertOne({a:1});
Line_comment == <<"/","/"," ","d","b",".","u","s","e","r","s",".","i","n","s","e","r","t","O","n","e","(","{","a",":","1","}",")",";">>
\* /* Multi-line comment */
Line_block == <<"/","*"," ","M","u","l","t","i","-","l","i","n","e"," ","c","o","m","m","e","n","t"," ","*","/">>
\* a line of blanks
Line_blank == <<" "," ">>

\* The statements scripts are made of.  class: "ok" for a well-formed
\* statement with one possible result, "call" for one that fails in
\* parseMongoStatement on its shape, its parentheses or its arity, "json"
\* for one with a literal that is not JSON after normalization, "skip" for
\* an unsupported method, "index" for an index on several fields, "many"
\* for an insertMany of an array, "comment" for comment lines and blanks.
Catalog ==
    << [text |-> Stmt_insertOne,        class |-> "ok"],
       [text |-> Stmt_updateOne,        class |-> "ok"],
       [text |-> Stmt_deleteMany,       class |-> "ok"],
       [text |-> Stmt_createIndex,      class |-> "ok"],
       [text |-> Stmt_createCollection, class |-> "ok"],
       [text |-> Stmt_arity,            class |-> "call"],
       [text |-> Stmt_paren,            class |-> "call"],
       [text |-> Stmt_shape,            class |-> "call"],
       [text |-> Stmt_badJson,          class |-> "json"],
       [text |-> Stmt_badOptions,       class |-> "json"],
       [text |-> Stmt_find,             class |-> "skip"],
       [text |-> Stmt_createIndex2,     class |-> "index"],
       [text |-> Stmt_insertMany,       class |-> "many"],
       [text |-> Line_comment,          class |-> "comment"],
       [text |-> Line_block,            class |-> "comment"],
       [text |-> Line_blank,            class |-> "comment"] >>

MaxStmts == 3

\* the script whose lines are the catalog entries ids, in order
ScriptOf(ids) == Join([i \in 1..Len(ids) |-> Catalog[ids[i]].text], <<"\n">>)

CatalogScripts == UNION {[1..n -> 1..Len(Catalog)] : n \in 0..MaxStmts}

\* Documents written in the loose dialect: fields are <<key, value>> pairs,
\* a value is a string (its content) or a bare literal (its text)
Keys == {<<"n","a","m","e">>, <<"a","g","e">>, <<"$","k">>}

Values ==
    {[str |-> TRUE,  text |-> <<"A","n","n">>],
     [str |-> TRUE,  text |-> <<"x",",","}">>],
     [str |-> TRUE,  text |-> <<"k",":","1">>],
     [str |-> TRUE,  text |-> <<>>],
     [str |-> FALSE, text |-> <<"3","0">>],
     [str |-> FALSE, text |-> <<"-","1",".","5">>],
     [str |-> FALSE, text |-> <<"t","r","u","e">>]}

MaxFields == 2

Documents ==
    UNION {{d \in [1..n -> Keys \X Values] :
              \A a, b \in 1..n : a # b => d[a][1] # d[b][1]} : n \in 1..MaxFields}

\* the field as the dialect allows it: unquoted key, single-quoted string;
\* style 1 is compact, style 2 puts blanks around the colon
LooseField(f, style) ==
    f[1] \o (IF style = 1 THEN <<":">> ELSE <<" ", ":", " ">>)
         \o (IF f[2].str THEN <<SQ>> \o f[2].text \o <<SQ>> ELSE f[2].text)

\* the document as the dialect allows it; style 2 ends with a trailing comma
LooseDocument(d, style) ==
    <<"{">> \o Join([i \in 1..Len(d) |-> LooseField(d[i], style)],
                    IF style = 1 THEN <<",">> ELSE <<",", " ">>)
            \o (IF style = 1 THEN <<"}">> ELSE <<",", " ", "}">>)

\* db.users.insertOne(<document>);
InsertOneScript(d, style) == <<"d","b",".","u","s","e","r","s",".","i","n","s","e","r","t","O","n","e","(">> \o LooseDocument(d, style) \o <<")",";">>

\* what a script is built from: catalog entries, or one document to insert
GivenCatalog(ids) == [kind |-> "catalog", ids |-> ids, doc |-> <<>>, style |-> 0]
GivenInsertOne(d, style) == [kind |-> "insertOne", ids |-> <<>>, doc |-> d, style |-> style]
GivenNothing == [kind |-> "none", ids |-> <<>>, doc |-> <<>>, style |-> 0]

\* Names as createCollection takes them, with the collection they name
CollectionNames ==
    << [text |-> <<DQ,"x",DQ>>,     name |-> <<"x">>],
       [text |-> <<SQ,"u","s","e","r","s",SQ>>, name |-> <<"u","s","e","r","s">>] >>

\* Options of createCollection in the loose dialect, with the validator they
\* hold in strict JSON when they hold one that is an object
CollectionOptions ==
    << [text |-> <<>>, has |-> FALSE, validator |-> <<>>],
       [text |-> <<","," ","{","v","a","l","i","d","a","t","o","r",":","{","b","s","o","n","T","y","p","e",":",DQ,"o","b","j","e","c","t",DQ,"}","}">>, has |-> TRUE,
        validator |-> <<"{",DQ,"b","s","o","n","T","y","p","e",DQ,":",DQ,"o","b","j","e","c","t",DQ,"}">>],
       [text |-> <<","," ","{","v","a","l","i","d","a","t","o","r",":"," ","{","$","a","n","d",":"," ","[","{","a",":",SQ,"x",SQ,"}",","," ","{","b",":","1",",","}","]",",","}",","," ","}">>,
        has |-> TRUE,
        validator |-> <<"{",DQ,"$","a","n","d",DQ,":","[","{",DQ,"a",DQ,":",DQ,"x",DQ,"}",",","{",DQ,"b",DQ,":","1","}","]","}">>],
       [text |-> <<","," ","{","v","a","l","i","d","a","t","o","r",":","{","}","}">>,        has |-> TRUE,  validator |-> <<"{","}">>],
       [text |-> <<","," ","{","v","a","l","i","d","a","t","o","r",":",DQ,"s","t","r","i","c","t",DQ,"}">>,  has |-> FALSE, validator |-> <<>>],
       [text |-> <<","," ","{","v","a","l","i","d","a","t","o","r",":","[","{","a",":","1","}","]","}">>,   has |-> FALSE, validator |-> <<>>],
       [text |-> <<","," ","{","v","a","l","i","d","a","t","o","r",":","n","u","l","l","}">>,      has |-> FALSE, validator |-> <<>>],
       [text |-> <<","," ","{","c","a","p","p","e","d",":","t","r","u","e","}">>,         has |-> FALSE, validator |-> <<>>],
       [text |-> <<","," ","{","}">>,                    has |-> FALSE, validator |-> <<>>] >>

\* db.createCollection(<name><options>);
CreateCollectionScript(n, o) ==
    Txt_dbCreateCollection \o CollectionNames[n].text \o CollectionOptions[o].text \o <<")",";">>

\* Values of an index specification as scripts write them, each with the
\* value the documentation of the coercion gives it: an integer for a whole
\* number or a whole numeric string, a float for any other number or
\* numeric string, the value itself otherwise
IndexValues ==
    << [text |-> <<"1">>,    stored |-> IntValue(1)],
       [text |-> <<"-","1">>,   stored |-> IntValue(0 - 1)],
       [text |-> <<"2",".","0">>,  stored |-> IntValue(2)],
       [text |-> <<"1",".","5">>,  stored |-> FloatValue(<<"1",".","5">>)],
       [text |-> <<DQ,"1",DQ>>,  stored |-> IntValue(1)],
       [text |-> <<SQ,"-","1",SQ>>, stored |-> IntValue(0 - 1)],
       [text |-> <<DQ,"2",".","5",DQ>>, stored |-> FloatValue(<<"2",".","5">>)],
       [text |-> <<DQ,"1",".","0",DQ>>, stored |-> IntValue(1)],
       [text |-> <<DQ,"t","e","x","t",DQ>>, stored |-> [kind |-> "string", num |-> 0, text |-> <<DQ,"t","e","x","t",DQ>>]],
       [text |-> <<SQ,"2","d","s","p","h","e","r","e",SQ>>, stored |-> [kind |-> "string", num |-> 0, text |-> <<DQ,"2","d","s","p","h","e","r","e",DQ>>]],
       [text |-> <<"t","r","u","e">>, stored |-> [kind |-> "bool", num |-> 0, text |-> <<"t","r","u","e">>]] >>

\* db.users.createIndex({loc: <value>});
IndexValueScript(v) == <<"d","b",".","u","s","e","r","s",".","c","r","e","a","t","e","I","n","d","e","x","(","{","l","o","c",":"," ">> \o IndexValues[v].text \o <<"}",")",";">>

GivenIndexValue(v) == [kind |-> "indexValue", ids |-> <<v>>, doc |-> <<>>, style |-> 0]

\* Method names outside the fixed set
OtherMethods ==
    << <<"f","i","n","d">>, <<"d","r","o","p">>, <<"a","g","g","r","e","g","a","t","e">>, <<"i","n","s","e","r","t">>, <<"I","n","s","e","r","t","O","n","e">>, <<"c","r","e","a","t","e","C","o","l","l","e","c","t","i","o","n">>, <<"x",".","i","n","s","e","r","t","O","n","e">> >>

Stmt_deleteOne == <<"d","b",".","u","s","e","r","s",".","d","e","l","e","t","e","O","n","e","(","{","b",":","2","}",")",";">>

\* db.users.<method>({a:1});
OtherMethodStatement(m) == <<"d","b",".","u","s","e","r","s",".">> \o OtherMethods[m] \o <<"(","{","a",":","1","}",")",";">>

\* the statement, and a deleteOne on the next line
OtherMethodScript(m) == OtherMethodStatement(m) \o <<"\n">> \o Stmt_deleteOne

GivenMethod(m) == [kind |-> "method", ids |-> <<m>>, doc |-> <<>>, style |-> 0]

\* Argument texts that hold fewer than two arguments
ShortArguments ==
    << <<>>, <<" ">>, <<"{","a",":","1","}">>, <<"{","a",":","1",","," ","b",":","{","c",":","2","}","}">>, <<"{","a",":",SQ,"x",",","y",SQ,"}">>, <<"[","{","a",":","1","}",","," ","{","b",":","2","}","]">> >>

\* Argument texts that hold two arguments or more: the text, the number of
\* its top-level arguments, and the first two as documents when both are
\* documents
WideArguments ==
    << [text |-> <<"{","a",":","1","}",","," ","{","$","s","e","t",":","{","b",":","2","}","}">>, count |-> 2,
        documents |-> <<<<"{",DQ,"a",DQ,":","1","}">>, <<"{",DQ,"$","s","e","t",DQ,":","{",DQ,"b",DQ,":","2","}","}">>>>],
       [text |-> <<"{","a",":","1","}",","," ","{","$","s","e","t",":","{","b",":","2","}","}",","," ","{","u","p","s","e","r","t",":","t","r","u","e","}">>, count |-> 3,
        documents |-> <<<<"{",DQ,"a",DQ,":","1","}">>, <<"{",DQ,"$","s","e","t",DQ,":","{",DQ,"b",DQ,":","2","}","}">>>>],
       [text |-> <<"{","a",":","1","}",","," ","{","$","s","e","t",":","{","b",":","2","}","}",","," ","{","u","p","s","e","r","t",":","t","r","u","e","}",","," ","1">>, count |-> 4,
        documents |-> <<<<"{",DQ,"a",DQ,":","1","}">>, <<"{",DQ,"$","s","e","t",DQ,":","{",DQ,"b",DQ,":","2","}","}">>>>],
       [text |-> <<"{","a",":",SQ,"x",",","y",SQ,"}",","," ","{","$","s","e","t",":","{","b",":","2","}","}",","," ","x"," ","y">>, count |-> 3,
        documents |-> <<<<"{",DQ,"a",DQ,":",DQ,"x",",","y",DQ,"}">>, <<"{",DQ,"$","s","e","t",DQ,":","{",DQ,"b",DQ,":","2","}","}">>>>],
       [text |-> <<"{","a",":","1","}",","," ",","," ","{","$","s","e","t",":","{","b",":","2","}","}">>, count |-> 3, documents |-> <<>>],
       [text |-> <<"{","a",":","1","}",","," ","2",","," ","{","$","s","e","t",":","{","b",":","2","}","}">>, count |-> 3, documents |-> <<>>] >>

UpdateMethods == <<Txt_updateOne, Txt_updateMany>>

\* db.users.<method>(<arguments>);
UpdateScript(m, a) == <<"d","b",".","u","s","e","r","s",".">> \o UpdateMethods[m] \o <<"(">> \o ShortArguments[a] \o <<")",";">>

GivenUpdate(m, a) == [kind |-> "update", ids |-> <<m, a>>, doc |-> <<>>, style |-> 0]

\* db.users.<method>(<arguments>);
WideUpdateScript(m, a) == <<"d","b",".","u","s","e","r","s",".">> \o UpdateMethods[m] \o <<"(">> \o WideArguments[a].text \o <<")",";">>

GivenWideUpdate(m, a) == [kind |-> "wideUpdate", ids |-> <<m, a>>, doc |-> <<>>, style |-> 0]

GivenCreateCollection(n, o) ==
    [kind |-> "createCollection", ids |-> <<n, o>>, doc |-> <<>>, style |-> 0]

\* Statements whose arguments are missing or null.  json.Unmarshal of null
\* leaves the map nil, which the operation then carries as its document.
BareStatements ==
    << <<"d","b",".","u","s","e","r","s",".","i","n","s","e","r","t","O","n","e","(","n","u","l","l",")",";">>,
       <<"d","b",".","u","s","e","r","s",".","d","e","l","e","t","e","O","n","e","(","n","u","l","l",")",";">>,
       <<"d","b",".","u","s","e","r","s",".","u","p","d","a","t","e","O","n","e","(","n","u","l","l",","," ","n","u","l","l",")",";">>,
       <<"d","b",".","u","s","e","r","s",".","i","n","s","e","r","t","O","n","e","(",")",";">>,
       <<"d","b",".","u","s","e","r","s",".","i","n","s","e","r","t","M","a","n","y","(","[","]",")",";">>,
       <<"d","b",".","u","s","e","r","s",".","u","p","d","a","t","e","M","a","n","y","(",")",";">>,
       <<"d","b",".","u","s","e","r","s",".","d","e","l","e","t","e","M","a","n","y","(",")",";">>,
       <<"d","b",".","u","s","e","r","s",".","c","r","e","a","t","e","I","n","d","e","x","(",")",";">>,
       <<"d","b",".","u","s","e","r","s",".","c","r","e","a","t","e","I","n","d","e","x","("," ",")",";">>,
       <<"d","b",".","u","s","e","r","s",".","c","r","e","a","t","e","I","n","d","e","x","(","n","u","l","l",")",";">> >>

\* the statement, and a deleteOne on the next line
BareScript(b) == BareStatements[b] \o <<"\n">> \o Stmt_deleteOne

GivenBare(b) == [kind |-> "bare", ids |-> <<b>>, doc |-> <<>>, style |-> 0]

Givens ==
    {GivenCatalog(ids) : ids \in CatalogScripts}
      \cup {GivenInsertOne(d, style) : d \in Documents, style \in {1, 2}}
      \cup {GivenCreateCollection(n, o) :
              n \in 1..Len(CollectionNames), o \in 1..Len(CollectionOptions)}
      \cup {GivenUpdate(m, a) : m \in 1..Len(UpdateMethods), a \in 1..Len(ShortArguments)}
      \cup {GivenIndexValue(v) : v \in 1..Len(IndexValues)}
      \cup {GivenMethod(m) : m \in 1..Len(OtherMethods)}
      \cup {GivenWideUpdate(m, a) : m \in 1..Len(UpdateMethods), a \in 1..Len(WideArguments)}
      \cup {GivenBare(b) : b \in 1..Len(BareStatements)}

TextOf(g) ==
    CASE g.kind = "catalog" -> ScriptOf(g.ids)
      [] g.kind = "insertOne" -> InsertOneScript(g.doc, g.style)
      [] g.kind = "createCollection" -> CreateCollectionScript(g.ids[1], g.ids[2])
      [] g.kind = "update" -> UpdateScript(g.ids[1], g.ids[2])
      [] g.kind = "indexValue" -> IndexValueScript(g.ids[1])
      [] g.kind = "method" -> OtherMethodScript(g.ids[1])
      [] g.kind = "wideUpdate" -> WideUpdateScript(g.ids[1], g.ids[2])
      [] g.kind = "bare" -> BareScript(g.ids[1])

(***************************************************************************)
(* State                                                                   *)
(*   given      what the script was built from                             *)
(*   input      the text handed to the function under test                 *)
(*   output     what a function under test returned                        *)
(*   pc         where ExecuteScript (or the function under test) stands    *)
(*   operations the operations parseJavaScriptOperations returned          *)
(*   calls      the operations handed to the database, in order            *)
(*   results    the results collected by ExecuteScript                     *)
(*   result     the ScriptResult returned                                  *)
(*   db         the collections and indexes of the database                *)
(***************************************************************************)
VARIABLES given, input, output, pc, operations, calls, results, result, db

vars == <<given, input, output, pc, operations, calls, results, result, db>>

NoResult == [Success |-> FALSE, Error |-> "pending"]

\* ---- ExecuteScript ----
Init ==
    /\ given \in Givens
    /\ input = TextOf(given)
    /\ output = <<>>
    /\ pc = "start"
    /\ operations = <<>>
    /\ calls = <<>>
    /\ results = <<>>
    /\ result = NoResult
    /\ db = NoDatabase

\* a plausible slip: an empty script is reported as a failure
Parse_EmptyFails ==
    /\ pc = "start"
    /\ IF Len(TrimSpace(input)) = 0
       THEN /\ result' = [Success |-> FALSE, Error |-> "parse"]
            /\ pc' = "done"
            /\ UNCHANGED operations
       ELSE \E r \in parseJavaScriptOperations(input) :
              /\ operations' = r.operations
              /\ pc' = "exec"
              /\ UNCHANGED result
    /\ UNCHANGED <<given, input, output, calls, results, db>>

\* ExecuteScript up to the loop over the operations
Parse ==
    /\ pc = "start"
    /\ IF Len(TrimSpace(input)) = 0
       THEN /\ result' = [Success |-> TRUE, Error |-> "none"]
            /\ pc' = "done"
            /\ UNCHANGED operations
       ELSE \E r \in parseJavaScriptOperations(input) :
              IF r.err
              THEN /\ result' = [Success |-> FALSE, Error |-> "parse"]
                   /\ pc' = "done"
                   /\ UNCHANGED operations
              ELSE /\ operations' = r.operations
                   /\ pc' = "exec"
                   /\ UNCHANGED result
    /\ UNCHANGED <<given, input, output, calls, results, db>>

\* a plausible slip: after an operation that failed the loop goes on with
\* the next one
Execute_GoesOn ==
    /\ pc = "exec"
    /\ Len(results) < Len(operations)
    /\ LET op == operations[Len(results) + 1] IN
       IF executeGuardFails(op)
       THEN /\ result' = [Success |-> FALSE, Error |-> "execute"]
            /\ pc' = "done"
            /\ UNCHANGED <<calls, results, db>>
       ELSE /\ calls' = Append(calls, op)
            /\ \E outcome \in dbOutcomes(db, op) :
                 /\ results' = Append(results, executeMongoOperation(op, outcome).value)
                 /\ db' = IF outcome = "ok" THEN dbAfter(db, op) ELSE db
                 /\ UNCHANGED <<result, pc>>
    /\ UNCHANGED <<given, input, output, operations>>

\* one turn of the loop: executeMongoOperation on the next operation; the
\* database call returns one of the outcomes the database can give
Execute ==
    /\ pc = "exec"
    /\ Len(results) < Len(operations)
    /\ LET op == operations[Len(results) + 1] IN
       IF executeGuardFails(op)
       THEN /\ result' = [Success |-> FALSE, Error |-> "execute"]
            /\ pc' = "done"
            /\ UNCHANGED <<calls, results, db>>
       ELSE /\ calls' = Append(calls, op)
            /\ \E outcome \in dbOutcomes(db, op) :
                 /\ db' = IF outcome = "ok" THEN dbAfter(db, op) ELSE db
                 /\ IF executeMongoOperation(op, outcome).err
                    THEN /\ result' = [Success |-> FALSE, Error |-> "execute"]
                         /\ pc' = "done"
                         /\ UNCHANGED results
                    ELSE /\ results' = Append(results, executeMongoOperation(op, outcome).value)
                         /\ UNCHANGED <<result, pc>>
    /\ UNCHANGED <<given, input, output, operations>>

\* the return after the loop
Finish ==
    /\ pc = "exec"
    /\ Len(results) = Len(operations)
    /\ result' = [Success |-> TRUE, Error |-> "none"]
    /\ pc' = "done"
    /\ UNCHANGED <<given, input, output, operations, calls, results, db>>

Next == Parse \/ Execute \/ Finish

Spec == Init /\ [][Next]_vars

\* ---- the scanners of utils.go, each applied to a text ----
MaxLen == 5

Texts(alphabet, n) == UNION {[1..k -> alphabet] : k \in 0..n}

\* the variables ExecuteScript uses, at rest
Idle ==
    /\ given = GivenNothing
    /\ operations = <<>>
    /\ calls = <<>>
    /\ results = <<>>
    /\ result = NoResult
    /\ db = NoDatabase

\* {a:1, b:2,}
Lit_trailing == <<"{","a",":","1",","," ","b",":","2",",","}">>
\* {a:[1,2,],b:3}
Lit_trailingArray == <<"{","a",":","[","1",",","2",",","]",",","b",":","3","}">>

RtcAlphabet == {",", "}", "]", " ", DQ, SQ, "a"}

InitRtc ==
    /\ input \in Texts(RtcAlphabet, MaxLen) \cup {Lit_trailing, Lit_trailingArray}
    /\ output = <<>>
    /\ pc = "start"
    /\ Idle

CallRemoveTrailingCommas ==
    /\ pc = "start"
    /\ output' = removeTrailingCommas(input)
    /\ pc' = "done"
    /\ UNCHANGED <<given, input, operations, calls, results, result, db>>

SpecRtc == InitRtc /\ [][CallRemoveTrailingCommas]_vars

(***************************************************************************)
(* What the scanners are to compute, stated on positions of the text       *)
(***************************************************************************)

\* the quotes a scan can be in: none, a double-quoted literal, a single-quoted one
QuoteStates == <<"", DQ, SQ>>

QuoteIndex(q) == CHOOSE k \in 1..3 : QuoteStates[k] = q

\* one character read with quote q open: the quote open after it, and the
\* change of the nesting depth, where the characters in opens and closes
\* that are outside quoted literals count.  A quoted literal ends at the
\* character that opened it.
ScanChar(c, q, opens, closes) ==
    [quote |-> IF c \notin {DQ, SQ} THEN q
               ELSE IF q = "" THEN c
               ELSE IF q = c THEN "" ELSE q,
     depth |-> IF q = "" /\ c \in opens THEN 1
               ELSE IF q = "" /\ c \in closes THEN -1 ELSE 0]

\* the characters lo..hi of s read from each of the three quote states
RECURSIVE Scan(_, _, _, _, _)
Scan(s, lo, hi, opens, closes) ==
    IF lo > hi THEN <<[quote |-> "", depth |-> 0], [quote |-> DQ, depth |-> 0],
                      [quote |-> SQ, depth |-> 0]>>
    ELSE IF lo = hi
    THEN <<ScanChar(s[lo], "", opens, closes), ScanChar(s[lo], DQ, opens, closes),
           ScanChar(s[lo], SQ, opens, closes)>>
    ELSE The({ <<[quote |-> right[QuoteIndex(left[1].quote)].quote,
                  depth |-> left[1].depth + right[QuoteIndex(left[1].quote)].depth],
                 [quote |-> right[QuoteIndex(left[2].quote)].quote,
                  depth |-> left[2].depth + right[QuoteIndex(left[2].quote)].depth],
                 [quote |-> right[QuoteIndex(left[3].quote)].quote,
                  depth |-> left[3].depth + right[QuoteIndex(left[3].quote)].depth]>> :
               left \in {Scan(s, lo, (lo + hi) \div 2, opens, closes)},
               right \in {Scan(s, (lo + hi) \div 2 + 1, hi, opens, closes)} })

\* the quote that is open after the first n characters of s, "" when none
OpenQuote(s, n) == Scan(s, 1, n, {}, {})[1].quote

\* the nesting depth after the first n characters of s
Depth(s, n, opens, closes) == Scan(s, 1, n, opens, closes)[1].depth

\* position i of s is outside every quoted literal
Outside(s, i) == OpenQuote(s, i - 1) = ""

\* the comma at i is outside quotes and the next character that is not
\* whitespace is a closing brace or bracket
IsTrailingComma(s, i) ==
    /\ s[i] = ","
    /\ Outside(s, i)
    /\ \E j \in (i + 1)..Len(s) :
         /\ s[j] \in {"}", "]"}
         /\ \A k \in (i + 1)..(j - 1) : s[k] \in {" ", "\t", "\n", "\r"}

\* s with the characters at the positions in drop left out
Without(s, drop) ==
    LET kept == SelectSeq([i \in 1..Len(s) |-> i], LAMBDA i : i \notin drop)
    IN [k \in 1..Len(kept) |-> s[kept[k]]]

TrailingCommas(s) == {i \in 1..Len(s) : IsTrailingComma(s, i)}

Commas(s) == {i \in 1..Len(s) : s[i] = ","}

(***************************************************************************)
(* Claims                                                                  *)
(***************************************************************************)

\* C6: removeTrailingCommas drops exactly the commas that are outside quoted
\* literals and whose next non-whitespace character is } or ]; every other
\* character, every other comma included, is kept in its original order.
C6_OnlyTrailingCommasRemoved ==
    pc = "done" => output = Without(input, TrailingCommas(input))

\* C6 witness: a call that dropped a trailing comma and kept another comma
C6_Witness ==
    /\ pc = "done"
    /\ TrailingCommas(input) # {}
    /\ Commas(input) \ TrailingCommas(input) # {}
    /\ Len(output) = Len(input) - Cardinality(TrailingCommas(input))


(***************************************************************************)
(* Properties of ExecuteScript                                             *)
(***************************************************************************)

\* the classes of the catalog entries a script is made of
Classes(g) == [i \in 1..Len(g.ids) |-> Catalog[g.ids[i]].class]

IdOf(text) == CHOOSE i \in 1..Len(Catalog) : Catalog[i].text = text

\* the operations of a catalog entry parsed as a script of its own
OpsAlone(id) == The(parseJavaScriptOperations(Catalog[id].text)).operations

RECURSIVE Flatten(_)
Flatten(seqs) == IF seqs = <<>> THEN <<>> ELSE Head(seqs) \o Flatten(Tail(seqs))

Count(seq, x) == Cardinality({i \in 1..Len(seq) : seq[i] = x})

\* C1: the IndexSpec of a createIndex operation lists the index fields in
\* the order in which the script writes them, for an index on several fields.
C1_IndexKeysInTextualOrder ==
    \A i \in 1..Len(operations) :
       operations[i].HasIndexSpec /\ Len(operations[i].IndexSpec) = 2
          => /\ operations[i].Collection = <<"u","s","e","r","s">>
             /\ operations[i].IndexSpec[1].Key = <<"b">>
             /\ operations[i].IndexSpec[2].Key = <<"a">>

\* C2: db.users.insertMany([{a:1}, {b:2}]); parses to one insert operation
\* whose arguments are the documents of the array.
C2_InsertManyParsed ==
    given = GivenCatalog(<<IdOf(Stmt_insertMany)>>) /\ pc # "start"
       => operations = <<[MongoOperation("insert", <<"u","s","e","r","s">>, <<"i","n","s","e","r","t","M","a","n","y">>) EXCEPT
                             !.Arguments = <<<<"{",DQ,"a",DQ,":","1","}">>, <<"{",DQ,"b",DQ,":","2","}">>>>]>>

\* C3: a script with a statement whose literal is not JSON after
\* normalization ends in failure, and no database call is made for it.
C3_JsonFailureFailsScript ==
    /\ given.kind = "catalog"
    /\ \E i \in 1..Len(given.ids) : Classes(given)[i] = "json"
    /\ pc = "done"
    => ~result.Success /\ calls = <<>>

\* C4: when one statement of a script fails in parseMongoStatement and the
\* others are well formed, the parse returns no error and the operations are
\* those of the other statements, each as parsed alone, in script order.
C4_FailedStatementSkipped ==
    /\ given.kind = "catalog"
    /\ Count(Classes(given), "call") = 1
    /\ Count(Classes(given), "ok") = Len(given.ids) - 1
    /\ pc # "start"
    => /\ result.Error # "parse"
       /\ Len(operations) = Len(given.ids) - 1
       /\ operations = Flatten([i \in 1..Len(given.ids) |->
                                   IF Classes(given)[i] = "call" THEN <<>>
                                   ELSE OpsAlone(given.ids[i])])

\* C4 witness: a failing statement between two well-formed ones, both parsed
C4_Witness ==
    /\ given.kind = "catalog"
    /\ Classes(given) = <<"ok", "call", "ok">>
    /\ pc = "exec"
    /\ Len(operations) = 2
    /\ operations[2] = OpsAlone(given.ids[3])[1]

\* C9: a script of // comment lines and blanks parses to no operation,
\* without error, and ExecuteScript succeeds without any database call.
C9_CommentsOnly ==
    /\ given.kind = "catalog"
    /\ \A i \in 1..Len(given.ids) : Classes(given)[i] = "comment"
    /\ pc # "start"
    => /\ operations = <<>>
       /\ calls = <<>>
       /\ pc = "done" => result = [Success |-> TRUE, Error |-> "none"]

\* C9 witness: a script with a commented-out statement has succeeded
C9_Witness ==
    /\ given.kind = "catalog"
    /\ Len(given.ids) >= 2
    /\ \A i \in 1..Len(given.ids) : Classes(given)[i] = "comment"
    /\ \E i \in 1..Len(given.ids) : given.ids[i] = IdOf(Line_comment)
    /\ pc = "done"
    /\ result.Success
    /\ calls = <<>>

\* the field and the document in strict JSON
StrictField(f) ==
    <<DQ>> \o f[1] \o <<DQ, ":">>
           \o (IF f[2].str THEN <<DQ>> \o f[2].text \o <<DQ>> ELSE f[2].text)

StrictDocument(d) ==
    <<"{">> \o Join([i \in 1..Len(d) |-> StrictField(d[i])], <<",">>) \o <<"}">>

\* C10: a document written with unquoted keys, single-quoted strings and a
\* trailing comma is parsed to the document that decoding its strict JSON
\* form gives.
C10_LooseDocumentDecoded ==
    given.kind = "insertOne" /\ pc # "start"
       => /\ ~UnmarshalMap(StrictDocument(given.doc)).err
          /\ operations =
               <<[MongoOperation("insert", <<"u","s","e","r","s">>, <<"i","n","s","e","r","t","O","n","e">>) EXCEPT
                     !.Arguments = <<UnmarshalMap(StrictDocument(given.doc)).canon>>]>>

\* C10 witness: two fields, a string holding ,} and a trailing comma, parsed
C10_Witness ==
    /\ given.kind = "insertOne"
    /\ given.style = 2
    /\ Len(given.doc) = 2
    /\ \E i \in 1..2 : given.doc[i][2] = [str |-> TRUE, text |-> <<"x",",","}">>]
    /\ \E i \in 1..2 : ~given.doc[i][2].str
    /\ pc = "exec"
    /\ Len(operations) = 1
    /\ operations[1].Arguments = <<StrictDocument(given.doc)>>


(***************************************************************************)
(* splitArguments applied to a text                                        *)
(***************************************************************************)

MaxArgLen == 4

\* {a:1},{b:{c:2}}
Lit_twoArguments == <<"{","a",":","1","}",",","{","b",":","{","c",":","2","}","}">>
\* {a:1},[{b:1},{c:2}]
Lit_arrayArgument == <<"{","a",":","1","}",",","[","{","b",":","1","}",",","{","c",":","2","}","]">>

SplitAlphabet == {",", "{", "}", "[", "]", DQ, SQ, "a", " "}

InitSplit ==
    /\ input \in Texts(SplitAlphabet, MaxArgLen) \cup {Lit_twoArguments, Lit_arrayArgument}
    /\ output = <<>>
    /\ pc = "start"
    /\ Idle

CallSplitArguments ==
    /\ pc = "start"
    /\ output' = splitArguments(input)
    /\ pc' = "done"
    /\ UNCHANGED <<given, input, operations, calls, results, result, db>>

SpecSplit == InitSplit /\ [][CallSplitArguments]_vars

\* the commas of s outside quoted literals and at depth 0
TopLevelCommas(s, opens, closes) ==
    {i \in 1..Len(s) : s[i] = "," /\ Outside(s, i) /\ Depth(s, i - 1, opens, closes) = 0}

\* s cut at the positions in points, from position from on: each piece
\* trimmed, a last piece only when characters follow the last cut
RECURSIVE Pieces(_, _, _)
Pieces(s, from, points) ==
    LET ahead == {q \in points : q >= from} IN
    IF ahead = {}
    THEN IF from <= Len(s) THEN <<TrimSpace(SubSeq(s, from, Len(s)))>> ELSE <<>>
    ELSE LET q == CHOOSE x \in ahead : \A y \in ahead : x <= y
         IN <<TrimSpace(SubSeq(s, from, q - 1))>> \o Pieces(s, q + 1, points)

\* C7: splitArguments cuts the text exactly at the commas that are outside
\* quoted literals and at depth 0, where braces and brackets both nest.
C7_SplitsAtTopLevelCommas ==
    pc = "done" => output = Pieces(input, 1, TopLevelCommas(input, {"{", "["}, {"}", "]"}))

(***************************************************************************)
(* normalizeJavaScriptObject applied to strict JSON                        *)
(***************************************************************************)

StrictValues ==
    Values \cup {[str |-> TRUE,  text |-> <<"i","t",SQ,"s">>],
                 [str |-> TRUE,  text |-> <<"x",BSL,DQ,"y">>],
                 [str |-> FALSE, text |-> <<"n","u","l","l">>]}

StrictDocuments ==
    UNION {{d \in [1..n -> Keys \X StrictValues] :
              \A a, b \in 1..n : a # b => d[a][1] # d[b][1]} : n \in 1..MaxFields}

\* the value of a field as strict JSON writes it
StrictValue(f) == IF f[2].str THEN <<DQ>> \o f[2].text \o <<DQ>> ELSE f[2].text

\* the document in strict JSON with optional whitespace: style 1 has none,
\* style 2 a blank after each colon and comma, style 3 blanks around every
\* token
StrictText(d, style) ==
    CASE style = 1 -> StrictDocument(d)
      [] style = 2 ->
           <<"{">> \o Join([i \in 1..Len(d) |->
                              <<DQ>> \o d[i][1] \o <<DQ, ":", " ">> \o StrictValue(d[i])],
                           <<",", " ">>) \o <<"}">>
      [] OTHER ->
           <<"{", " ">> \o Join([i \in 1..Len(d) |->
                                   <<DQ>> \o d[i][1] \o <<DQ, " ", ":", " ">> \o StrictValue(d[i])],
                                <<" ", ",", " ">>) \o <<" ", "}">>

GivenStrict(d, style) == [kind |-> "strict", ids |-> <<>>, doc |-> d, style |-> style]

InitNorm ==
    /\ given \in {GivenStrict(d, style) : d \in StrictDocuments, style \in {1, 2, 3}}
    /\ input = StrictText(given.doc, given.style)
    /\ output = <<>>
    /\ pc = "start"
    /\ operations = <<>>
    /\ calls = <<>>
    /\ results = <<>>
    /\ result = NoResult
    /\ db = NoDatabase

CallNormalize ==
    /\ pc = "start"
    /\ output' = normalizeJavaScriptObject(input)
    /\ pc' = "done"
    /\ UNCHANGED <<given, input, operations, calls, results, result, db>>

SpecNorm == InitNorm /\ [][CallNormalize]_vars

\* C5: normalizeJavaScriptObject returns a literal that is valid strict JSON
\* unchanged, character for character.
C5_StrictJsonUnchanged ==
    pc = "done" /\ jsonDecode(input).ok => output = input


(***************************************************************************)
(* splitIntoStatements applied to statements laid out on several lines     *)
(***************************************************************************)

\* db.users.insertOne( { name: "Ann;", tags: ['a}', "b;"], profile: {
\* role: "it's" } } );   cut where a line may end
Tokens_insertOne ==
    << <<"d","b",".","u","s","e","r","s",".","i","n","s","e","r","t","O","n","e","(">>, <<"{">>, <<"n","a","m","e",":"," ",DQ,"A","n","n",";",DQ,",">>, <<"t","a","g","s",":"," ","[",SQ,"a","}",SQ,","," ",DQ,"b",";",DQ,"]",",">>,
       <<"p","r","o","f","i","l","e",":"," ","{">>, <<"r","o","l","e",":"," ",DQ,"i","t",SQ,"s",DQ>>, <<"}">>, <<"}">>, <<")",";">> >>

\* db.users.updateOne( {a:1}, {$set: {b:2} } );   cut where a line may end
Tokens_updateOne ==
    << <<"d","b",".","u","s","e","r","s",".","u","p","d","a","t","e","O","n","e","(">>, <<"{","a",":","1","}",",">>, <<"{","$","s","e","t",":">>, <<"{","b",":","2","}">>, <<"}">>, <<")",";">> >>

Statements == <<Tokens_insertOne, Tokens_updateOne>>

\* a full-line comment and the indentation of the line after it
Line_note == <<" "," ","/","/"," ","n","o","t","e",";">>

\* the statement with a line break after each token whose number is in
\* breaks and a blank after the others; a broken line is followed by an
\* indented one and, when noted, by a comment line first
RECURSIVE Layout(_, _, _, _)
Layout(tokens, n, breaks, noted) ==
    IF n = Len(tokens) THEN tokens[n]
    ELSE tokens[n]
           \o (IF n \in breaks
               THEN (IF noted THEN <<"\n">> \o Line_note ELSE <<>>) \o <<"\n", "\t", " ">>
               ELSE <<" ">>)
           \o Layout(tokens, n + 1, breaks, noted)

\* the script: the statement, a one-line statement before it when pre, one
\* after it when post
LayoutScript(g) ==
    (IF g.pre THEN Stmt_createCollection \o <<"\n">> ELSE <<>>)
      \o Layout(Statements[g.statement], 1, g.breaks, g.noted)
      \o (IF g.post THEN <<"\n">> \o Stmt_find ELSE <<>>)

Layouts ==
    {[kind |-> "layout", statement |-> k, breaks |-> b, noted |-> c, pre |-> x, post |-> y] :
        k \in {1}, b \in SUBSET (1..(Len(Statements[1]) - 1)),
        c \in BOOLEAN, x \in BOOLEAN, y \in BOOLEAN}
    \cup
    {[kind |-> "layout", statement |-> k, breaks |-> b, noted |-> c, pre |-> x, post |-> y] :
        k \in {2}, b \in SUBSET (1..(Len(Statements[2]) - 1)),
        c \in BOOLEAN, x \in BOOLEAN, y \in BOOLEAN}

InitSeg ==
    /\ given \in Layouts
    /\ input = LayoutScript(given)
    /\ output = <<>>
    /\ pc = "start"
    /\ operations = <<>>
    /\ calls = <<>>
    /\ results = <<>>
    /\ result = NoResult
    /\ db = NoDatabase

CallSplitIntoStatements ==
    /\ pc = "start"
    /\ output' = splitIntoStatements(input)
    /\ pc' = "done"
    /\ UNCHANGED <<given, input, operations, calls, results, result, db>>

SpecSeg == InitSeg /\ [][CallSplitIntoStatements]_vars

\* s has its braces and brackets matched and its quoted literals closed
Balanced(s) ==
    /\ Depth(s, Len(s), {"{"}, {"}"}) = 0
    /\ Depth(s, Len(s), {"["}, {"]"}) = 0
    /\ OpenQuote(s, Len(s)) = ""

\* C8: a statement ending with ; and spread over several lines, its nested
\* objects balanced and its quotes closed, comes out of splitIntoStatements
\* as exactly one statement, the trimmed lines joined by single blanks, and
\* that text is brace-balanced and quote-balanced.
C8_OneBalancedStatement ==
    pc = "done" /\ given.breaks # {}
       => /\ output = (IF given.pre THEN <<Stmt_createCollection>> ELSE <<>>)
                        \o <<Join(Statements[given.statement], <<" ">>)>>
                        \o (IF given.post THEN <<Stmt_find>> ELSE <<>>)
          /\ Balanced(output[(IF given.pre THEN 1 ELSE 0) + 1])

\* C8 witness: a statement on four lines or more, between two others, with a
\* brace inside a quoted literal, has come out as one statement
C8_Witness ==
    /\ pc = "done"
    /\ given.statement = 1
    /\ Cardinality(given.breaks) >= 3
    /\ given.pre /\ given.post
    /\ Len(output) = 3
    /\ Contains(output[2], "{") /\ Contains(output[2], SQ)
    /\ HasSuffix(output[2], <<")", ";">>)


\* C11: db.createCollection(name, opts) parses to one createCollection
\* operation on the collection the name gives once its quotes are stripped,
\* with the validator of opts when opts has one that is an object, and with
\* no validator otherwise.
C11_CreateCollectionParsed ==
    given.kind = "createCollection" /\ pc # "start"
       => operations =
            <<[MongoOperation("createCollection", CollectionNames[given.ids[1]].name,
                              Txt_createCollection) EXCEPT
                  !.HasValidator = CollectionOptions[given.ids[2]].has,
                  !.Validator = CollectionOptions[given.ids[2]].validator]>>

\* C11 witness: a nested validator with an array and trailing commas, stored
C11_Witness ==
    /\ given.kind = "createCollection"
    /\ pc = "exec"
    /\ Len(operations) = 1
    /\ operations[1].HasValidator
    /\ Contains(operations[1].Validator, "[")
    /\ operations[1].Collection = <<"u","s","e","r","s">>


\* C12: an updateOne or updateMany with fewer than two arguments is an error
\* of its statement and leaves no operation; and no update operation ever
\* holds anything but a filter and an update.
C12_NoPartialUpdate ==
    /\ given.kind = "update" /\ pc # "start"
         => /\ \A r \in parseMongoStatement(input) : r.err /\ r.ops = <<>>
            /\ operations = <<>>
            /\ calls = <<>>
    /\ \A i \in 1..Len(operations) :
         operations[i].Type = "update" => Len(operations[i].Arguments) = 2

\* C12 witness: the script db.users.updateOne({a:1}); has been parsed
C12_Witness ==
    /\ given.kind = "update"
    /\ input = <<"d","b",".","u","s","e","r","s",".","u","p","d","a","t","e","O","n","e","(","{","a",":","1","}",")",";">>
    /\ pc = "done"
    /\ operations = <<>>


\* C13: in the specification of a createIndex, a numeric literal or numeric
\* string is stored as a number, an integer when whole and a float
\* otherwise, and any other value is stored as it is given.
C13_IndexValuesCoerced ==
    given.kind = "indexValue" /\ pc # "start"
       => /\ Len(operations) = 1
          /\ operations[1].IndexSpec =
               <<[Key |-> <<"l","o","c">>, Value |-> IndexValues[given.ids[1]].stored]>>


(***************************************************************************)
(* ParseMetadata applied to a script                                       *)
(***************************************************************************)

\* the lines scripts are made of here
MetaLines ==
    << <<"/","/"," ","M","E","T","A","D","A","T","A",":">>,
       <<" "," ","/","/"," ","{",DQ,"d","e","s","c","r","i","p","t","i","o","n",DQ,":",DQ,"d",DQ,",">>,
       <<"/","/"," ",DQ,"v","e","r","s","i","o","n",DQ,":",DQ,"1",DQ,"}">>,
       <<"/","/"," ","{",DQ,"A","u","t","h","o","r",DQ,":",DQ,"a",DQ,"}">>,
       <<"/","/">>,
       <<>>,
       <<"d","b",".","c","r","e","a","t","e","C","o","l","l","e","c","t","i","o","n","(",DQ,"t",DQ,")",";">>,
       <<"/","/"," ","M","E","T","A","D","A","T","A",":"," ","{",DQ,"a","u","t","h","o","r",DQ,":",DQ,"x",DQ,"}">>,
       <<"/","/"," ","n","o","t","e">> >>

MaxMetaLines == 4

GivenLines(ids) == [kind |-> "lines", ids |-> ids, doc |-> <<>>, style |-> 0]

InitMeta ==
    /\ given \in {GivenLines(ids) :
                    ids \in UNION {[1..n -> 1..Len(MetaLines)] : n \in 0..MaxMetaLines}}
    /\ input = Join([i \in 1..Len(given.ids) |-> MetaLines[given.ids[i]]], <<"\n">>)
    /\ output = <<>>
    /\ pc = "start"
    /\ operations = <<>>
    /\ calls = <<>>
    /\ results = <<>>
    /\ result = NoResult
    /\ db = NoDatabase

CallParseMetadata ==
    /\ pc = "start"
    /\ output' = ParseMetadata(input)
    /\ pc' = "done"
    /\ UNCHANGED <<given, input, operations, calls, results, result, db>>

SpecMeta == InitMeta /\ [][CallParseMetadata]_vars

\* line i of the script, trimmed
MetaLine(g, i) == TrimSpace(MetaLines[g.ids[i]])

\* the marker lines of the script
MarkerLines(g) == {i \in 1..Len(g.ids) : HasPrefix(MetaLine(g, i), Txt_metadata)}

Least(S) == CHOOSE x \in S : \A y \in S : x <= y

\* the lines after the first marker line and before the first line after it
\* that is not a // comment
BlockLines(g) ==
    LET m == Least(MarkerLines(g))
        e == Least({j \in (m + 1)..Len(g.ids) : ~HasPrefix(MetaLine(g, j), Txt_comment)}
                     \cup {Len(g.ids) + 1})
    IN (m + 1)..(e - 1)

\* the texts after // of the lines in block, in order, as one text
BlockText(g, block) ==
    LET idx == SelectSeq([i \in 1..Len(g.ids) |-> i], LAMBDA i : i \in block)
    IN Join([k \in 1..Len(idx) |-> TrimSpace(TrimPrefix(MetaLine(g, idx[k]), Txt_comment))], <<>>)

\* the metadata a text decodes to, nil when it does not decode
Decoded(t) == IF UnmarshalMetadata(t).err THEN NilMetadata ELSE UnmarshalMetadata(t).md

\* C14 as stated: nil without a marker line; otherwise the result is decoded
\* from exactly the // lines between the marker line and the first following
\* line that is not a // comment.
C14_MetadataFromBlock ==
    pc = "done"
       => output = IF MarkerLines(given) = {} THEN NilMetadata
                   ELSE Decoded(BlockText(given, BlockLines(given)))

\* C14 amended: nil without a marker line; otherwise the result is decoded
\* from the // lines, further marker lines left out, between the first marker
\* line and the first following line that is not a // comment, and is nil
\* when these lines do not decode.
C14_MetadataFromBlockWithoutMarkers ==
    pc = "done"
       => output = IF MarkerLines(given) = {} THEN NilMetadata
                   ELSE Decoded(BlockText(given, BlockLines(given) \ MarkerLines(given)))

\* C14 witness: a block of two lines behind the marker has been decoded
C14_Witness ==
    /\ pc = "done"
    /\ Len(given.ids) = 4
    /\ given.ids[1] = 1
    /\ ~output.isNil
    /\ output.Description = <<"d">>
    /\ output.Version = <<"1">>
    /\ output.Author = <<>>


\* the methods an operation can have
Methods ==
    {Txt_createCollection, Txt_createIndex, Txt_insertOne, Txt_insertMany,
     Txt_updateOne, Txt_updateMany, Txt_deleteOne, Txt_deleteMany}

\* C15: every operation parsed has a method of the fixed set; a statement
\* with another method gives no operation and no error, and the statement
\* after it is parsed.
C15_OnlyKnownMethods ==
    /\ \A i \in 1..Len(operations) : operations[i].Operation \in Methods
    /\ given.kind = "method" /\ pc # "start"
         => /\ parseMongoStatement(OtherMethodStatement(given.ids[1])) = {ParsedNothing}
            /\ result.Error # "parse"
            /\ operations =
                 <<[MongoOperation("delete", <<"u","s","e","r","s">>, Txt_deleteOne) EXCEPT
                       !.Arguments = <<<<"{",DQ,"b",DQ,":","2","}">>>>]>>

\* C15 witness: db.users.find({a:1}); was skipped and the deleteOne after it
\* executed
C15_Witness ==
    /\ given.kind = "method"
    /\ OtherMethods[given.ids[1]] = <<"f","i","n","d">>
    /\ pc = "done"
    /\ result.Success
    /\ Len(calls) = 1
    /\ calls[1].Operation = Txt_deleteOne


\* for each catalog entry, in the order of the catalog, the operation
\* sequences its statement stands for: one operation for a well-formed
\* statement of a supported method (either order of the fields for the index
\* on two fields), none for the others
PossibleOps(id) ==
    CASE id = 1 -> {<<[MongoOperation("insert", <<"u","s","e","r","s">>, Txt_insertOne) EXCEPT
                         !.Arguments = <<<<"{",DQ,"n","a","m","e",DQ,":",DQ,"A","n","n",DQ,",",DQ,"a","g","e",DQ,":","3","0","}">>>>]>>}
      [] id = 2 -> {<<[MongoOperation("update", <<"u","s","e","r","s">>, Txt_updateOne) EXCEPT
                         !.Arguments = <<<<"{",DQ,"a",DQ,":","1","}">>, <<"{",DQ,"$","s","e","t",DQ,":","{",DQ,"b",DQ,":","2","}","}">>>>]>>}
      [] id = 3 -> {<<[MongoOperation("delete", <<"u","s","e","r","s">>, Txt_deleteMany) EXCEPT
                         !.Arguments = <<<<"{",DQ,"a",DQ,":",DQ,"x",";","y",DQ,"}">>>>]>>}
      [] id = 4 -> {<<[MongoOperation("createIndex", <<"u","s","e","r","s">>, Txt_createIndex) EXCEPT
                         !.HasIndexSpec = TRUE,
                         !.IndexSpec = <<[Key |-> <<"e","m","a","i","l">>, Value |-> IntValue(1)]>>,
                         !.IndexOptions = [present |-> TRUE, hasUnique |-> TRUE,
                                           unique |-> TRUE, hasName |-> FALSE,
                                           name |-> <<>>]]>>}
      [] id = 5 -> {<<MongoOperation("createCollection", <<"u","s","e","r","s">>, Txt_createCollection)>>}
      [] id = 10 -> {<<MongoOperation("createCollection", <<"c">>, Txt_createCollection)>>}
      [] id = 12 -> {<<[MongoOperation("createIndex", <<"u","s","e","r","s">>, Txt_createIndex) EXCEPT
                          !.HasIndexSpec = TRUE,
                          !.IndexSpec = <<[Key |-> order[1], Value |-> IntValue(order[2])],
                                          [Key |-> order[3], Value |-> IntValue(order[4])]>>]>> :
                       order \in {<<<<"b">>, 1, <<"a">>, 0 - 1>>, <<<<"a">>, 0 - 1, <<"b">>, 1>>}}
      [] OTHER -> {<<>>}

\* the sequences made of one possible result per entry of ids, in order
RECURSIVE InOrder(_)
InOrder(ids) ==
    IF ids = <<>> THEN {<<>>}
    ELSE {a \o b : a \in PossibleOps(Head(ids)), b \in InOrder(Tail(ids))}

\* the operation sequences one segmented statement can contribute: the
\* operation it parses to, or none when it fails or is skipped
StatementOps(statement) ==
    {IF r.err THEN <<>> ELSE r.ops : r \in parseStatement(statement)}

\* the sequences made of one possible contribution per statement, in order
RECURSIVE InOrderOf(_)
InOrderOf(statements) ==
    IF statements = <<>> THEN {<<>>}
    ELSE {a \o b : a \in StatementOps(Head(statements)), b \in InOrderOf(Tail(statements))}

\* the script has a line that is a /* */ comment, which the segmenter joins
\* with the line after it
HasBlockLine(g) == \E i \in 1..Len(g.ids) : g.ids[i] = IdOf(Line_block)

\* C16: the operations are in source order: they are what the segmented
\* statements give one by one, at most one operation each, in the order of
\* the statements, none moved and none repeated; and when every line of the
\* script is a statement of its own, they are what the lines give in order.
C16_SourceOrder ==
    given.kind = "catalog" /\ pc = "exec" /\ results = <<>>
       => /\ IF HasBlockLine(given)
             THEN operations \in InOrderOf(splitIntoStatements(input))
             ELSE operations \in InOrder(given.ids)
          /\ \A k \in 1..Len(splitIntoStatements(input)) :
               \A ops \in StatementOps(splitIntoStatements(input)[k]) : Len(ops) <= 1

\* C16 witness: three statements of three kinds, parsed to three operations
C16_Witness ==
    /\ given.kind = "catalog"
    /\ Len(given.ids) = 3
    /\ pc = "exec"
    /\ Len(operations) = 3
    /\ operations[1].Type = "createCollection"
    /\ operations[2].Type = "createIndex"
    /\ operations[3].Type = "insert"


(***************************************************************************)
(* normalizeJavaScriptObject applied to any text                           *)
(***************************************************************************)

\* {a:1,,}
Lit_doubled == <<"{","a",":","1",",",",","}">>
\* {a:'x', b:[1, 2, ], }
Lit_loose == <<"{","a",":",SQ,"x",SQ,","," ","b",":","[","1",","," ","2",","," ","]",","," ","}">>

LooseAlphabet == {",", "}", "]", "{", ":", " ", DQ, SQ, "a"}

InitLoose ==
    /\ input \in Texts(LooseAlphabet, MaxLen) \cup {Lit_doubled, Lit_loose}
    /\ output = <<>>
    /\ pc = "start"
    /\ Idle

SpecLoose == InitLoose /\ [][CallNormalize]_vars

\* C17: for every input literal, the text normalizeJavaScriptObject produces
\* has no trailing comma (no comma outside quoted literals whose next
\* non-whitespace character is } or ]) and no single-quote character.
C17_NoTrailingCommaNoSingleQuote ==
    pc = "done" => /\ TrailingCommas(output) = {}
                   /\ \A i \in 1..Len(output) : output[i] # SQ

\* a comma outside quotes whose next non-whitespace character is a comma
\* that is itself trailing
BeforeTrailingComma(s) ==
    {i \in 1..Len(s) :
       /\ s[i] = ","
       /\ Outside(s, i)
       /\ \E j \in TrailingCommas(s) :
            /\ i < j
            /\ \A k \in (i + 1)..(j - 1) : s[k] \in {" ", "\t", "\n", "\r"}}

\* apart from such commas the output is as stated: when no comma of the
\* input, single quotes read as double quotes, stands before a trailing
\* comma, the output has no trailing comma
NoTrailingCommaUnlessDoubled ==
    pc = "done" /\ BeforeTrailingComma(ReplaceAll(input, SQ, DQ)) = {}
       => TrailingCommas(output) = {}

(***************************************************************************)
(* splitIntoStatements applied to scripts made of lines                    *)
(***************************************************************************)

\* the lines a script is made of: the line as written, and what the
\* segmenter keeps of it (the trimmed line, nothing for a blank line or a
\* full-line comment)
SegLines ==
    << [line |-> <<"d","b",".","c",".","i","n","s","e","r","t","M","a","n","y","(","[">>,  kept |-> <<"d","b",".","c",".","i","n","s","e","r","t","M","a","n","y","(","[">>],
       [line |-> <<" "," ","{","a",":","1","}",","," ","/","/"," ","x",";">>,     kept |-> <<"{","a",":","1","}",","," ","/","/"," ","x",";">>],
       [line |-> <<"]",")",";">>,                kept |-> <<"]",")",";">>],
       [line |-> <<"d","b",".","c",".","i","n","s","e","r","t","O","n","e","(","{">>,   kept |-> <<"d","b",".","c",".","i","n","s","e","r","t","O","n","e","(","{">>],
       [line |-> <<" "," ","a",":","1",";">>,             kept |-> <<"a",":","1",";">>],
       [line |-> <<"}",")",";">>,                kept |-> <<"}",")",";">>],
       [line |-> <<"b",":"," ",SQ,"x",DQ,"}",";">>,           kept |-> <<"b",":"," ",SQ,"x",DQ,"}",";">>],
       [line |-> <<"y",SQ," ">>,                kept |-> <<"y",SQ>>],
       [line |-> <<" "," ","/","/"," ","n","o","t","e",";">>,         kept |-> <<>>],
       [line |-> <<" "," ">>,                 kept |-> <<>>],
       [line |-> <<"d","b",".","c",".","d","r","o","p","(",")",";">>,       kept |-> <<"d","b",".","c",".","d","r","o","p","(",")",";">>] >>

MaxLines == 4

GivenScript(ids) == [kind |-> "script", ids |-> ids, doc |-> <<>>, style |-> 0]

InitLines ==
    /\ given \in {GivenScript(ids) :
                    ids \in UNION {[1..n -> 1..Len(SegLines)] : n \in 0..MaxLines}}
    /\ input = Join([i \in 1..Len(given.ids) |-> SegLines[given.ids[i]].line], <<"\n">>)
    /\ output = <<>>
    /\ pc = "start"
    /\ operations = <<>>
    /\ calls = <<>>
    /\ results = <<>>
    /\ result = NoResult
    /\ db = NoDatabase

SpecLines == InitLines /\ [][CallSplitIntoStatements]_vars

\* the lines of the script that are kept, in order
Kept(g) ==
    SelectSeq([i \in 1..Len(g.ids) |-> SegLines[g.ids[i]].kept], LAMBDA l : l # <<>>)

\* the first n of the texts, joined by single blanks
Upto(texts, n) == Join(SubSeq(texts, 1, n), <<" ">>)

\* line k of the kept lines ends with ; where the nesting depth, counted
\* over opens and closes outside quoted literals, is 0 and no quote is open
Complete(kept, k, opens, closes) ==
    /\ HasSuffix(kept[k], <<";">>)
    /\ Depth(Upto(kept, k), Len(Upto(kept, k)), opens, closes) = 0
    /\ OpenQuote(Upto(kept, k), Len(Upto(kept, k))) = ""

\* the numbers of the lines at which a statement ends: the complete lines,
\* and the last line
EndLines(kept, opens, closes) ==
    {k \in 1..Len(kept) : k = Len(kept) \/ Complete(kept, k, opens, closes)}

Greatest(S) == CHOOSE x \in S : \A y \in S : y <= x

\* the j-th smallest element of ends
Nth(ends, j) == CHOOSE e \in ends : Cardinality({x \in ends : x <= e}) = j

\* the statements: the kept lines from one end line to the next, joined by
\* single blanks
Segments(kept, opens, closes) ==
    The({ [j \in 1..Cardinality(ends) |->
             Join(SubSeq(kept, Greatest({0} \cup {x \in ends : x < Nth(ends, j)}) + 1,
                         Nth(ends, j)), <<" ">>)] :
          ends \in {EndLines(kept, opens, closes)} })

\* C18: while a script is segmented the nesting depth rises on every { or [
\* and falls on every } or ] outside a quoted literal, so a line that ends
\* with ; while an object or an array opened on an earlier line is still
\* unclosed does not complete the statement: no statement ends at it, unless
\* it is the last line of the script.
C18_BracketsCountAsDepth ==
    pc = "done"
       => \A k \in 1..(Len(Kept(given)) - 1) :
             /\ HasSuffix(Kept(given)[k], <<";">>)
             /\ \/ Depth(Upto(Kept(given), k), Len(Upto(Kept(given), k)), {"{"}, {"}"}) > 0
                \/ Depth(Upto(Kept(given), k), Len(Upto(Kept(given), k)), {"["}, {"]"}) > 0
             => \A j \in 1..Len(output) : Upto(output, j) # Upto(Kept(given), k)

\* the same with braces alone: a line that ends with ; while an object
\* opened on an earlier line is still unclosed does not complete the statement
BracesCountAsDepth ==
    pc = "done"
       => \A k \in 1..(Len(Kept(given)) - 1) :
             /\ HasSuffix(Kept(given)[k], <<";">>)
             /\ Depth(Upto(Kept(given), k), Len(Upto(Kept(given), k)), {"{"}, {"}"}) > 0
             => \A j \in 1..Len(output) : Upto(output, j) # Upto(Kept(given), k)

\* C20: splitIntoStatements emits the buffer exactly at the lines that end
\* with ; while the depth is 0 and no quote is open, and at the end of the
\* input the remaining buffer as the last statement; hence the statements,
\* joined in order, hold the text of every kept line once and in order.
C20_EmittedAtCompleteLines ==
    pc = "done"
       => /\ output = Segments(Kept(given), {"{", "["}, {"}", "]"})
          /\ Join(output, <<" ">>) = Join(Kept(given), <<" ">>)

\* with the depth the segmenter keeps, which counts braces alone, the
\* statements are emitted at the complete lines and no line is lost or
\* duplicated
EmittedAtBraceCompleteLines ==
    pc = "done"
       => /\ output = Segments(Kept(given), {"{"}, {"}"})
          /\ Join(output, <<" ">>) = Join(Kept(given), <<" ">>)

(***************************************************************************)
(* Quoted literals in splitArguments and splitIntoStatements               *)
(***************************************************************************)

\* {a:"it's},"}, {b:'{",'}
Lit_quotedArguments == <<"{","a",":",DQ,"i","t",SQ,"s","}",",",DQ,"}",","," ","{","b",":",SQ,"{",DQ,",",SQ,"}">>
\* db.c.insertOne({a:"it's};",
\* b:'"x",'});
Lit_quotedStatement == <<"d","b",".","c",".","i","n","s","e","r","t","O","n","e","(","{","a",":",DQ,"i","t",SQ,"s","}",";",DQ,",">> \o <<"\n">> \o <<"b",":",SQ,DQ,"x",DQ,",",SQ,"}",")",";">>

QuoteAlphabet == {DQ, SQ, "{", ",", ";", "\n", "a"}

GivenText(kind) == [kind |-> kind, ids |-> <<>>, doc |-> <<>>, style |-> 0]

InitQuote ==
    /\ given \in {GivenText("arguments"), GivenText("statements")}
    /\ input \in Texts(QuoteAlphabet, MaxLen) \cup {Lit_quotedArguments, Lit_quotedStatement}
    /\ output = <<>>
    /\ pc = "start"
    /\ operations = <<>>
    /\ calls = <<>>
    /\ results = <<>>
    /\ result = NoResult
    /\ db = NoDatabase

NextQuote ==
    \/ given.kind = "arguments" /\ CallSplitArguments
    \/ given.kind = "statements" /\ CallSplitIntoStatements

SpecQuote == InitQuote /\ [][NextQuote]_vars

\* the characters that would matter to a scan outside a quoted literal
Marks == {DQ, SQ, "{", "}", "[", "]", ",", ";"}

\* s with every mark inside a quoted literal, the quote character that
\* closes the literal excepted, replaced by a letter
Mask(s) ==
    [i \in 1..Len(s) |->
       IF s[i] \in Marks /\ OpenQuote(s, i - 1) # "" /\ OpenQuote(s, i - 1) # s[i]
       THEN "a" ELSE s[i]]

\* the positions of s where a mark stands inside a quoted literal
Quoted(s) == {i \in 1..Len(s) : Mask(s)[i] # s[i]}

\* C19: in the segmenter and in the argument splitter, once a quoted literal
\* is open only the same quote character closes it: the other quote
\* character, braces, commas and semicolons inside it are plain content, so
\* the text is cut where it is cut with letters in their place, and the
\* pieces are the same but for those letters; the arguments are cut at the
\* commas outside quoted literals where no brace is open.
C19_QuotedContentIsPlain ==
    pc = "done"
       => /\ given.kind = "arguments"
               => /\ splitArguments(Mask(input)) = [k \in 1..Len(output) |-> Mask(output[k])]
                  /\ output = Pieces(input, 1, TopLevelCommas(input, {"{"}, {"}"}))
          /\ given.kind = "statements"
               => splitIntoStatements(Mask(input)) = [k \in 1..Len(output) |-> Mask(output[k])]

\* C19 witness: a statement on two lines whose quoted literals hold the
\* other quote, a brace, a comma and a semicolon at the end of the first
\* line comes out as one statement
C19_Witness ==
    /\ pc = "done"
    /\ given.kind = "statements"
    /\ input = Lit_quotedStatement
    /\ Cardinality(Quoted(input)) = 6
    /\ Len(output) = 1

(***************************************************************************)
(* The loop of ExecuteScript                                               *)
(***************************************************************************)

\* the values the execution of an operation of each type can return
ValuesOf(op) ==
    CASE op.Type = "createCollection" -> {"Collection created", "Collection already exists"}
      [] op.Type = "createIndex" -> {"Index created", "Index already exists"}
      [] op.Type = "insert" -> {"InsertedID", "InsertedIDs"}
      [] op.Type = "update" -> {"ModifiedCount"}
      [] op.Type = "delete" -> {"DeletedCount"}
      [] OTHER -> {}

\* C21: ExecuteScript hands the parsed operations to the execution layer one
\* at a time in parsed order: the operations executed so far are the first
\* ones parsed, each with its result but possibly the last; at the first
\* operation that returns an error it returns Success = false and executes
\* no later operation; it returns Success = true only when every operation
\* succeeded, with one result per operation in the same order.
C21_OneAtATimeUntilFirstError ==
    /\ Len(calls) <= Len(operations)
    /\ calls = SubSeq(operations, 1, Len(calls))
    /\ Len(results) <= Len(calls)
    /\ Len(calls) <= Len(results) + 1
    /\ \A i \in 1..Len(results) : results[i] \in ValuesOf(operations[i])
    /\ pc = "exec" => Len(calls) = Len(results)
    /\ pc = "done" /\ result.Error = "execute"
          => /\ Len(results) < Len(operations)
             /\ ~result.Success
    /\ pc = "done" /\ result.Success
          => /\ Len(results) = Len(operations)
             /\ calls = operations

\* C21 witness: the second of three operations failed; the first has its
\* result and the third was not executed
C21_Witness ==
    /\ pc = "done"
    /\ ~result.Success
    /\ Len(operations) = 3
    /\ Len(calls) = 2
    /\ Len(results) = 1

(***************************************************************************)
(* updateOne and updateMany with two arguments or more                     *)
(***************************************************************************)

\* the number of top-level arguments of the update statement of the script
ArgumentCount(g) ==
    IF g.kind = "wideUpdate" THEN WideArguments[g.ids[2]].count
    ELSE Len(Pieces(ShortArguments[g.ids[2]], 1,
                    TopLevelCommas(ShortArguments[g.ids[2]], {"{", "["}, {"}", "]"})))

\* C22: an updateOne or updateMany statement yields an operation only when
\* its argument text splits into exactly two top-level arguments; with three
\* or more it is an error and contributes no operation.
C22_ExactlyTwoArguments ==
    given.kind \in {"update", "wideUpdate"} /\ pc # "start"
       => /\ operations # <<>> => ArgumentCount(given) = 2
          /\ ArgumentCount(given) >= 3
               => operations = <<>> /\ \A r \in parseMongoStatement(input) : r.err

\* C22 as the code has it: the statement yields an operation only when its
\* argument text splits into at least two top-level arguments; with three or
\* more the first two are the filter and the update document and the others
\* are left out, the operation being the one of the first two alone.
C22_AtLeastTwoArguments ==
    given.kind \in {"update", "wideUpdate"} /\ pc # "start"
       => /\ operations # <<>> => ArgumentCount(given) >= 2
          /\ given.kind = "wideUpdate"
               => operations =
                    IF WideArguments[given.ids[2]].documents = <<>> THEN <<>>
                    ELSE <<[MongoOperation("update", <<"u","s","e","r","s">>, UpdateMethods[given.ids[1]])
                              EXCEPT !.Arguments = WideArguments[given.ids[2]].documents]>>

\* C22 witness: an updateMany with four arguments parsed to an operation of
\* two documents and executed
C22_Witness ==
    /\ given.kind = "wideUpdate"
    /\ UpdateMethods[given.ids[1]] = Txt_updateMany
    /\ ArgumentCount(given) = 4
    /\ pc = "done"
    /\ result.Success
    /\ Len(calls) = 1
    /\ Len(calls[1].Arguments) = 2

(***************************************************************************)
(* addQuotesToKeys applied to a text                                       *)
(***************************************************************************)

\* { name : "a b: c", $k:true , ok : null }
Lit_keys == <<"{"," ","n","a","m","e"," ",":"," ",DQ,"a"," ","b",":"," ","c",DQ,","," ","$","k",":","t","r","u","e"," ",","," ","o","k"," ",":"," ","n","u","l","l"," ","}">>

KeyAlphabet == {DQ, "a", "$", "1", ":", " ", "{"}

InitKeys ==
    /\ input \in Texts(KeyAlphabet, MaxLen) \cup {Lit_keys}
    /\ output = <<>>
    /\ pc = "start"
    /\ Idle

CallAddQuotesToKeys ==
    /\ pc = "start"
    /\ output' = addQuotesToKeys(input)
    /\ pc' = "done"
    /\ UNCHANGED <<given, input, operations, calls, results, result, db>>

SpecKeys == InitKeys /\ [][CallAddQuotesToKeys]_vars

\* the characters an identifier-shaped token starts with, and goes on with
Starts == Lower \cup Upper \cup {"_", "$"}

Continues == Starts \cup Digit

\* an identifier-shaped token starts at i: a character of Starts outside
\* quoted literals, with nothing but digits in the run of token characters
\* before it
TokenStart(s, i) ==
    /\ s[i] \in Starts
    /\ Outside(s, i)
    /\ \A k \in 1..(i - 1) :
         (\A m \in k..(i - 1) : s[m] \in Continues) => s[k] \in Digit

\* the last character of the token that starts at i
TokenEnd(s, i) ==
    Greatest({e \in i..Len(s) : \A m \in i..e : s[m] \in Continues})

\* the first position after the token that starts at i that holds neither a
\* blank nor a tab, Len(s) + 1 when there is none
AfterToken(s, i) ==
    Least({p \in (TokenEnd(s, i) + 1)..(Len(s) + 1) :
             p = Len(s) + 1 \/ s[p] \notin {" ", "\t"}})

\* the token that starts at i is followed, after optional whitespace, by a colon
IsKey(s, i) ==
    /\ TokenStart(s, i)
    /\ AfterToken(s, i) <= Len(s)
    /\ s[AfterToken(s, i)] = ":"

KeyStarts(s) == {i \in 1..Len(s) : IsKey(s, i)}

\* the blanks and tabs that stand between a token and what follows it
BlanksAfterTokens(s) ==
    {p \in 1..Len(s) :
       \E i \in 1..(p - 1) :
          TokenStart(s, i) /\ TokenEnd(s, i) < p /\ p < AfterToken(s, i)}

\* s with a double quote before and after every token that is a key, the
\* characters at the positions in drop left out, and every other character
\* as it is
KeysWrapped(s, drop) ==
    Flatten([p \in 1..Len(s) |->
               (IF p \in KeyStarts(s) THEN <<DQ>> ELSE <<>>)
                 \o (IF p \in drop THEN <<>> ELSE <<s[p]>>)
                 \o (IF \E i \in KeyStarts(s) : TokenEnd(s, i) = p THEN <<DQ>> ELSE <<>>)])

\* C23: key quoting wraps in double quotes every identifier-shaped token
\* that stands outside quoted literals and is followed, after optional
\* whitespace, by a colon; the tokens not followed by a colon and all text
\* inside quoted literals are passed through unchanged.  Of the other
\* characters only the blanks between a token and what follows it are
\* left out.
C23_KeysWrappedOthersUnchanged ==
    pc = "done" => output = KeysWrapped(input, BlanksAfterTokens(input))

\* C23 witness: a text with a key, a word that is not a key and a quoted
\* literal that holds a word before a colon
C23_Witness ==
    /\ pc = "done"
    /\ input = Lit_keys
    /\ Cardinality(KeyStarts(input)) = 3
    /\ output = <<"{"," ",DQ,"n","a","m","e",DQ,":"," ",DQ,"a"," ","b",":"," ","c",DQ,","," ",DQ,"$","k",DQ,":","t","r","u","e",","," ",DQ,"o","k",DQ,":"," ","n","u","l","l","}">>

(***************************************************************************)
(* What the parser hands to the executor                                   *)
(***************************************************************************)

Types == {"createCollection", "createIndex", "insert", "update", "delete"}

\* C24: every operation parseJavaScriptOperations returns has a Type of the
\* fixed set, carries exactly one argument document when its Type is insert
\* or delete and exactly two when it is update; so the guards of the
\* executor are never reached: an execution that fails has failed in the
\* database call made for the operation.
C24_GuardsNeverReached ==
    /\ \A i \in 1..Len(operations) :
         /\ operations[i].Type \in Types
         /\ operations[i].Type \in {"insert", "delete"} => Len(operations[i].Arguments) = 1
         /\ operations[i].Type = "update" => Len(operations[i].Arguments) = 2
         /\ ~executeGuardFails(operations[i])
    /\ pc = "done" /\ result.Error = "execute" => Len(calls) = Len(results) + 1

\* C24 witness: insertOne(null) parsed to an insert that carries one
\* document, the nil one, and was handed to the database
C24_Witness ==
    /\ given.kind = "bare"
    /\ BareStatements[given.ids[1]] = <<"d","b",".","u","s","e","r","s",".","i","n","s","e","r","t","O","n","e","(","n","u","l","l",")",";">>
    /\ pc = "done"
    /\ result.Success
    /\ Len(calls) = 2
    /\ calls[1].Type = "insert"
    /\ calls[1].Arguments = << <<>> >>

\* the script is db.users.createIndex(); and a deleteOne after it
IsBareCreateIndex(g) ==
    g.kind = "bare" /\ BareStatements[g.ids[1]] = <<"d","b",".","u","s","e","r","s",".","c","r","e","a","t","e","I","n","d","e","x","(",")",";">>

\* C25: a createIndex statement with an empty argument list is not an error:
\* it yields a createIndex operation for the collection with no index
\* specification and no index options, and the operation is passed to the
\* execution layer, which makes the database call for it.
C25_CreateIndexWithoutArguments ==
    IsBareCreateIndex(given) /\ pc # "start"
       => /\ parseMongoStatement(BareStatements[given.ids[1]])
               = {Parsed(MongoOperation("createIndex", <<"u","s","e","r","s">>, Txt_createIndex))}
          /\ Len(operations) = 2
          /\ operations[1] = MongoOperation("createIndex", <<"u","s","e","r","s">>, Txt_createIndex)
          /\ ~operations[1].HasIndexSpec
          /\ operations[1].IndexSpec = <<>>
          /\ ~operations[1].IndexOptions.present
          /\ result.Error # "parse"
          /\ pc = "done" => Len(calls) >= 1 /\ calls[1] = operations[1]

\* C25 witness: the operation of db.users.createIndex(); was handed to the
\* database
C25_Witness ==
    /\ IsBareCreateIndex(given)
    /\ pc = "done"
    /\ Len(calls) = 1
    /\ calls[1].Type = "createIndex"
    /\ calls[1].Collection = <<"u","s","e","r","s">>

(***************************************************************************)
(* ExecuteScript called twice with the same script on the same database    *)
(***************************************************************************)

\* db.logs.createIndex({at:1});
Stmt_createIndexLogs == <<"d","b",".","l","o","g","s",".","c","r","e","a","t","e","I","n","d","e","x","(","{","a","t",":","1","}",")",";">>
\* db.createCollection('logs');
Stmt_createCollectionLogs == <<"d","b",".","c","r","e","a","t","e","C","o","l","l","e","c","t","i","o","n","(",SQ,"l","o","g","s",SQ,")",";">>

\* createCollection and createIndex statements; the last one is an index
\* on two fields
SchemaStatements ==
    <<Stmt_createCollection, Stmt_createIndex, Stmt_createIndexLogs,
      Stmt_createCollectionLogs, Stmt_createIndex2>>

GivenSchema(ids) == [kind |-> "schema", ids |-> ids, doc |-> <<>>, style |-> 0]

\* a reliable database, empty or with the collection users in it
InitTwice ==
    /\ given \in {GivenSchema(ids) :
                    ids \in UNION {[1..n -> 1..Len(SchemaStatements)] : n \in 1..MaxStmts}}
    /\ input = Join([i \in 1..Len(given.ids) |-> SchemaStatements[given.ids[i]]], <<"\n">>)
    /\ output = <<>>
    /\ pc = "start"
    /\ operations = <<>>
    /\ calls = <<>>
    /\ results = <<>>
    /\ result = NoResult
    /\ db \in {EmptyDatabase(TRUE),
               [EmptyDatabase(TRUE) EXCEPT !.collections = {<<"u","s","e","r","s">>}]}

\* the caller keeps what the first call returned and the database it left,
\* and calls ExecuteScript again with the same script
Again ==
    /\ pc = "done"
    /\ output = <<>>
    /\ output' = <<[result |-> result, results |-> results, db |-> db]>>
    /\ pc' = "start"
    /\ operations' = <<>>
    /\ calls' = <<>>
    /\ results' = <<>>
    /\ result' = NoResult
    /\ UNCHANGED <<given, input, db>>

NextTwice == Parse \/ Execute \/ Finish \/ Again

SpecTwice == InitTwice /\ [][NextTwice]_vars

\* the script has the index on two fields
HasTwoFieldIndex(g) ==
    \E i \in 1..Len(g.ids) : SchemaStatements[g.ids[i]] = Stmt_createIndex2

\* C26: a createCollection for a collection that exists and a createIndex
\* the database reports as already existing are success results and do not
\* stop the script; so the same script of createCollection and createIndex
\* statements run twice on the same database gives Success = true both
\* times and leaves the collections and indexes as after the first run.
C26_SecondRunChangesNothing ==
    /\ pc = "done" => result.Success /\ Len(results) = Len(operations)
    /\ pc = "done" /\ output # <<>>
          => /\ output[1].result.Success
             /\ db = output[1].db

\* the same for the scripts whose indexes are on one field each
SingleFieldSecondRunChangesNothing ==
    ~HasTwoFieldIndex(given)
       => /\ pc = "done" => result.Success /\ Len(results) = Len(operations)
          /\ pc = "done" /\ output # <<>>
                => /\ output[1].result.Success
                   /\ db = output[1].db
                   /\ \A i \in 1..Len(results) :
                        results[i] \in {"Collection already exists", "Index already exists",
                                        "Index created"}

\* a second run in which every statement met what the first run had made
SecondRunMetEverything ==
    /\ pc = "done"
    /\ output # <<>>
    /\ Len(given.ids) = 3
    /\ result.Success
    /\ "Collection already exists" \in {results[i] : i \in 1..Len(results)}
    /\ "Index already exists" \in {results[i] : i \in 1..Len(results)}
====
